---- MODULE Spec2Model ----
(***************************************************************************)
(* Model of the transform-pipeline runtime of sound_feature_extraction:    *)
(* BufferFormat (src/buffer_format.cc), BufferFormatBase / BuffersBase     *)
(* (src/buffers_base.h), the scratch pools of FilterBank::Do and Diff::Do  *)
(* and the parameter setters / negotiation of Beat, Diff, Mean, FilterBank *)
(* and RDFT, the bodies of Diff::Do, Beat::Do and Energy::TypeSafeDo, and  *)
(* the node tree that                                                      *)
(* the buffers allocator validates (tests/allocators).                     *)
(*                                                                         *)
(* The module holds several specifications over one set of variables; each *)
(* specification drives one group of variables and leaves the others at    *)
(* their initial value:                                                    *)
(*   SpecFormat   BufferFormat objects and their operations                *)
(*   SpecBuffers  BuffersBase<T> containers and Initialize                 *)
(*   SpecStage    one stage (Beat, FilterBank, Diff, Mean, RDFT or        *)
(*                RDFTInverse): its parameter setters, negotiation,        *)
(*                Initialize and concurrent Do invocations over its        *)
(*                scratch pool                                             *)
(*   SpecTyped    BufferFormatBase<T>: Validate, MustReallocate and the    *)
(*                incompatible_ flag                                       *)
(*   SpecDiff     Diff::Do and Diff::DoRectify over one input array        *)
(*   SpecBeatDo   Beat::Do over the peaks its detector found               *)
(*   SpecAllocator  a node tree, edits to it and its validation            *)
(*   SpecEnergy   Energy: negotiation, buffer allocation and TypeSafeDo    *)
(*   SpecStageFair  SpecStage with worker threads that are scheduled       *)
(*                fairly, for the termination of the scratch acquisition   *)
(*                                                                         *)
(* assert(...) is modelled as compiled in: a failed assertion aborts the   *)
(* process (the *halted variables), after which no operation runs.         *)
(***************************************************************************)
EXTENDS Integers, Sequences, FiniteSets, TLC

VARIABLES
  formats,   \* the BufferFormat objects constructed so far (id_, samplingRate_)
  fop,       \* the last BufferFormat operation and what it returned / threw
  fhalted,   \* TRUE once an assert of buffer_format.cc failed (process aborted)
  buffers,   \* the BuffersBase<T> containers: initialized_, size, element pointers
  heap,      \* the objects allocated with new T(args...): pointer -> args
  bop,       \* the last BuffersBase operation
  bhalted,   \* TRUE once the assert of BuffersBase::Initialize failed
  kind,      \* the stage constructed: "none", "Beat", "FilterBank" or "Diff"
  params,    \* the stage's parameter members (bands_, peaks_, swt_, ...)
  out,       \* what negotiation fixed: output format size and buffer count
  phase,     \* how far the stage has come in its lifecycle (a history variable)
  pool,      \* buffers_ / swt_buffers_: per slot the invocation holding its
             \* mutex, 0 when the mutex is free
  pc,        \* per Do invocation: where it is in Do
  idx,       \* per Do invocation: the slot its for loop is at (from 0)
  sop,       \* the last stage operation and what it returned
  base,      \* the BufferFormatBase<T> object under test: id_, incompatible_
             \* and the derived format's element capacity
  vop,       \* the last Validate / MustReallocate call on base
  din,       \* Diff: the input array (const float*) of the current call
  dout,      \* Diff: the output array
  dop,       \* Diff: the last call
  bdo,       \* Beat::Do: the stage, its input count and what detect_peaks
             \* found for each group of the current call
  bout,      \* Beat::Do: the output buffers, each a sequence of (bpm, energy)
  tree,      \* the allocator's tree of nodes
  verdict,   \* what Validate(tree) returned last
  edits,     \* how many fields of the tree were changed since SetUp
  ein,       \* Energy: the input buffers of the batch, each an array
  eout,      \* Energy: the output buffers
  eop        \* Energy: the last call, the input format's size, and the
             \* indices the call read from an input and wrote to an output

fvars == <<formats, fop, fhalted>>

bvars == <<buffers, heap, bop, bhalted>>

svars == <<kind, params, out, phase, pool, pc, idx, sop>>

tvars == <<base, vop>>

dvars == <<din, dout, dop>>

kvars == <<bdo, bout>>

avars == <<tree, verdict, edits>>

evars == <<ein, eout, eop>>

vars == <<formats, fop, fhalted, buffers, heap, bop, bhalted,
          kind, params, out, phase, pool, pc, idx, sop, base, vop,
          din, dout, dop, bdo, bout, tree, verdict, edits, ein, eout, eop>>

\* What the operations of one group leave alone.
notFormat == <<bvars, svars, tvars, dvars, kvars, avars, evars>>

notBuffers == <<fvars, svars, tvars, dvars, kvars, avars, evars>>

notStage == <<fvars, bvars, tvars, dvars, kvars, avars, evars>>

notTyped == <<fvars, bvars, svars, dvars, kvars, avars, evars>>

notDiff == <<fvars, bvars, svars, tvars, kvars, avars, evars>>

notBeatDo == <<fvars, bvars, svars, tvars, dvars, avars, evars>>

notAllocator == <<fvars, bvars, svars, tvars, dvars, kvars, evars>>

notEnergy == <<fvars, bvars, svars, tvars, dvars, kvars, avars>>

(***************************************************************************)
(*                      BufferFormat (buffer_format.cc)                    *)
(***************************************************************************)

\* Most BufferFormat objects alive at once.
MaxFormats == 2

\* The reserved id of IdentityFormat; it matches every other id.
kIdentityID == "identity"

\* Sampling rate range (declared in buffer_format.h / config.h).
kMinSamplingRate == 2000

kMaxSamplingRate == 48000

\* samplingRate_ of a format constructed without a rate.
UnsetSamplingRate == 0

\* The ids formats are constructed with: the wildcard and two type names.
FormatIdSet == {kIdentityID, "float", "int16_t"}

\* The rates handed to the constructor and to SetSamplingRate: both edges of
\* the valid range from both sides, 0 and a negative value.
RateInputs ==
  {0 - 1, 0, kMinSamplingRate - 1, kMinSamplingRate,
   kMaxSamplingRate, kMaxSamplingRate + 1}

FormatRefs == 1..Len(formats)

\* ValidateSamplingRate with the upper limit forgotten.
ValidateSamplingRateNoMax(value) == ~(value < kMinSamplingRate)

\* ValidateSamplingRate: TRUE when it returns, FALSE when it throws
\* InvalidSamplingRateException.
ValidateSamplingRate(value) ==
  ~(value < kMinSamplingRate \/ value > kMaxSamplingRate)

\* operator== testing the wildcard on the left side only.
EqualsLeftWildcard(this, other) ==
  this.id = kIdentityID \/ this.id = other.id

\* operator==
Equals(this, other) ==
  this.id = kIdentityID \/ other.id = kIdentityID \/ this.id = other.id

\* operator!= testing the wildcard on the left side only.
NotEqualsLeftWildcard(this, other) ==
  this.id # other.id /\ this.id # kIdentityID

\* operator!=
NotEquals(this, other) ==
  this.id # other.id /\ this.id # kIdentityID /\ other.id # kIdentityID

\* SamplingRate() without the assert.
SamplingRateNoAssert(this) == [halt |-> FALSE, ret |-> <<this.samplingRate>>]

\* SamplingRate(): the assert aborts on an unset rate, else the rate is
\* returned (ret is <<>> when nothing is returned).
SamplingRate(this) ==
  IF this.samplingRate > 0
    THEN [halt |-> FALSE, ret |-> <<this.samplingRate>>]
    ELSE [halt |-> TRUE, ret |-> <<>>]

\* SetSamplingRate assigning before it validates.
SetSamplingRateAssignFirst(this, value) ==
  [thrown |-> ~ValidateSamplingRate(value),
   this |-> [this EXCEPT !.samplingRate = value]]

\* SetSamplingRate(value): validate, then assign. thrown = the exception left
\* the function; this is the object afterwards.
SetSamplingRate(this, value) ==
  IF ValidateSamplingRate(value)
    THEN [thrown |-> FALSE, this |-> [this EXCEPT !.samplingRate = value]]
    ELSE [thrown |-> TRUE, this |-> this]

\* CopySourceDetailsFrom copying the whole format, the id included.
CopySourceDetailsFromWithId(this, format) ==
  IF format.samplingRate > 0
    THEN [halt |-> FALSE, this |-> format]
    ELSE [halt |-> TRUE, this |-> this]

\* CopySourceDetailsFrom(format) noexcept: SetSamplingRate(format.SamplingRate()).
\* An exception leaving a noexcept function terminates the process.
CopySourceDetailsFrom(this, format) ==
  LET r == SamplingRate(format) IN
  IF r.halt
    THEN [halt |-> TRUE, this |-> this]
    ELSE LET w == SetSamplingRate(this, r.ret[1]) IN
         [halt |-> w.thrown, this |-> w.this]

\* The record kept of the last call: its name, the objects it was made on, its
\* argument (<<>> when none), whether it returned normally, the exception it
\* threw ("" when none) and the value it returned (<<>> when none).
FOp(name, a, b, arg, ok, err, ret) ==
  [name |-> name, a |-> a, b |-> b, arg |-> arg, ok |-> ok, err |-> err,
   ret |-> ret]

\* BufferFormat(id, samplingRate) / BufferFormatBase(samplingRate): the members
\* are set, then the rate is validated; when validation throws no object comes
\* to exist.
NewFormatWithRate(id, samplingRate) ==
  /\ ~fhalted
  /\ UNCHANGED notFormat
  /\ Len(formats) < MaxFormats \/ ~ValidateSamplingRate(samplingRate)
  /\ IF ValidateSamplingRate(samplingRate)
       THEN /\ formats' = Append(formats, [id |-> id, samplingRate |-> samplingRate])
            /\ fop' = FOp("New", Len(formats) + 1, 0, <<samplingRate>>, TRUE, "", <<>>)
       ELSE /\ formats' = formats
            /\ fop' = FOp("New", 0, 0, <<samplingRate>>, FALSE,
                          "InvalidSamplingRate", <<>>)
  /\ UNCHANGED fhalted

\* BufferFormat(id) / BufferFormatBase(): samplingRate_ = 0.
NewFormat(id) ==
  /\ ~fhalted
  /\ UNCHANGED notFormat
  /\ Len(formats) < MaxFormats
  /\ formats' = Append(formats, [id |-> id, samplingRate |-> UnsetSamplingRate])
  /\ fop' = FOp("New", Len(formats) + 1, 0, <<>>, TRUE, "", <<>>)
  /\ UNCHANGED fhalted

CallSetSamplingRate(f, value) ==
  /\ ~fhalted
  /\ UNCHANGED notFormat
  /\ LET w == SetSamplingRate(formats[f], value) IN
     /\ formats' = [formats EXCEPT ![f] = w.this]
     /\ fop' = FOp("SetSamplingRate", f, 0, <<value>>, ~w.thrown,
                   IF w.thrown THEN "InvalidSamplingRate" ELSE "", <<>>)
  /\ UNCHANGED fhalted

CallSamplingRate(f) ==
  /\ ~fhalted
  /\ UNCHANGED notFormat
  /\ LET r == SamplingRate(formats[f]) IN
     /\ fhalted' = r.halt
     /\ fop' = FOp("SamplingRate", f, 0, <<>>, ~r.halt, "", r.ret)
  /\ UNCHANGED formats

\* fop.arg keeps the target's rate before the call.
CallCopySourceDetailsFrom(t, s) ==
  /\ ~fhalted
  /\ UNCHANGED notFormat
  /\ LET c == CopySourceDetailsFrom(formats[t], formats[s]) IN
     /\ formats' = [formats EXCEPT ![t] = c.this]
     /\ fhalted' = c.halt
     /\ fop' = FOp("CopySourceDetailsFrom", t, s, <<formats[t].samplingRate>>,
                   ~c.halt, "", <<>>)

\* a == b and a != b evaluated on two live formats; fop.ret = <<a == b, a != b>>.
CallCompare(a, b) ==
  /\ ~fhalted
  /\ UNCHANGED notFormat
  /\ fop' = FOp("Compare", a, b, <<>>, TRUE, "",
                <<Equals(formats[a], formats[b]), NotEquals(formats[a], formats[b])>>)
  /\ UNCHANGED <<formats, fhalted>>

NextFormat ==
  \/ \E id \in FormatIdSet, r \in RateInputs : NewFormatWithRate(id, r)
  \/ \E id \in FormatIdSet : NewFormat(id)
  \/ \E f \in FormatRefs, v \in RateInputs : CallSetSamplingRate(f, v)
  \/ \E f \in FormatRefs : CallSamplingRate(f)
  \/ \E t \in FormatRefs, s \in FormatRefs : CallCopySourceDetailsFrom(t, s)
  \/ \E a \in FormatRefs, b \in FormatRefs : CallCompare(a, b)


(***************************************************************************)
(*                      BuffersBase<T> (buffers_base.h)                    *)
(***************************************************************************)

\* Number of containers constructed.
MaxBuffers == 2

\* Largest size handed to Initialize.
MaxSize == 2

\* The constructor arguments handed to Initialize (args...).
CtorArgs == {"a", "b"}

BufferRefs == 1..MaxBuffers

\* The null pointer; allocated pointers are 1, 2, ...
NullPtr == 0

\* Buffers::SetSize(size): the pointer vector is resized, new slots are null.
BuffersSetSize(this, size) ==
  [this EXCEPT !.size = size,
               !.elements = [i \in 1..size |->
                               IF i <= Len(this.elements) THEN this.elements[i]
                                                          ELSE NullPtr]]

\* Buffers::Set(index, ptr), index counted from 0.
BuffersSet(this, index, ptr) ==
  [this EXCEPT !.elements[index + 1] = ptr]

\* new T(args...): the next unused pointer.
NewPtr(h) == Len(h) + 1

\* for (size_t i = 0; i < size; i++) Set(i, new T(args...));
RECURSIVE InitializeLoop(_, _, _, _, _)
InitializeLoop(this, h, i, size, args) ==
  IF i < size
    THEN InitializeLoop(BuffersSet(this, i, NewPtr(h)), Append(h, args),
                        i + 1, size, args)
    ELSE [this |-> this, heap |-> h]

\* Initialize without the assert.
InitializeNoAssert(this, h, size, args) ==
  LET r == InitializeLoop(BuffersSetSize(this, size), h, 0, size, args) IN
  [halt |-> FALSE, this |-> [r.this EXCEPT !.initialized = TRUE],
   heap |-> r.heap]

\* BuffersBase::Initialize(size, args...): assert(!initialized_), SetSize, the
\* loop, initialized_ = true.
Initialize(this, h, size, args) ==
  IF this.initialized
    THEN [halt |-> TRUE, this |-> this, heap |-> h]
    ELSE LET r == InitializeLoop(BuffersSetSize(this, size), h, 0, size, args) IN
         [halt |-> FALSE, this |-> [r.this EXCEPT !.initialized = TRUE],
          heap |-> r.heap]

\* BuffersBase(format): Buffers(0, format), initialized_(false).
NewBuffers == [initialized |-> FALSE, size |-> 0, elements |-> <<>>]

CallInitialize(c, size, args) ==
  /\ ~bhalted
  /\ UNCHANGED notBuffers
  /\ LET r == Initialize(buffers[c], heap, size, args) IN
     /\ buffers' = [buffers EXCEPT ![c] = r.this]
     /\ heap' = r.heap
     /\ bhalted' = r.halt
     /\ bop' = [name |-> "Initialize", c |-> c, size |-> size, args |-> args,
                ok |-> ~r.halt]

NextBuffers ==
  \E c \in BufferRefs, size \in 0..MaxSize, args \in CtorArgs :
    CallInitialize(c, size, args)

(***************************************************************************)
(*     BufferFormatBase<T>: Validate and MustReallocate (buffers_base.h)   *)
(*                                                                         *)
(* One BufferFormatBase<T> object is constructed, flagged with             *)
(* SetIncompatible, and asked to Validate buffers and to MustReallocate    *)
(* against other formats. The two pure virtual functions a derived format  *)
(* supplies (the payload validation loop and the typed comparison) live in *)
(* the formats' headers; they are modelled from the specification.         *)
(***************************************************************************)

\* Longest payload handed to Validate.
MaxPayload == 2

\* Largest element capacity of a format.
MaxCapacity == 2

\* The element types T the formats are instantiated with.
ElementTypes == {"float", "int16_t"}

\* float values: the three non-finite ones and two finite ones.
FloatValues == {"NaN", "+Inf", "-Inf", "0.0", "-1.5"}

\* int16_t values: both ends of the range and 0.
Int16Values == {"-32768", "0", "32767"}

ValuesOf(T) == IF T = "float" THEN FloatValues ELSE Int16Values

\* a == b on floats: NaN is unequal to everything, itself included.
FloatEquals(a, b) == a # "NaN" /\ b # "NaN" /\ a = b

\* Validator<float>::Validate: value == value && value != inf && value != -inf.
ValidatorFloat(value) ==
  /\ FloatEquals(value, value)
  /\ ~FloatEquals(value, "+Inf")
  /\ ~FloatEquals(value, "-Inf")

\* Validator<TE>::Validate, the primary template.
ValidatorGeneric(value) == TRUE

\* Validator<T>::Validate as the compiler selects it.
Validator(T, value) ==
  IF T = "float" THEN ValidatorFloat(value) ELSE ValidatorGeneric(value)

\* The derived format's Validate(const BuffersBase<T>&): every element goes
\* through Validator<T>; the first one refused throws InvalidBuffersException.
RECURSIVE TypedValidate(_, _, _)
TypedValidate(T, payload, i) ==
  IF i > Len(payload) THEN ""
  ELSE IF ~Validator(T, payload[i]) THEN "InvalidBuffers"
  ELSE TypedValidate(T, payload, i + 1)

\* Validate running the payload validator before it compares the formats.
ValidatePayloadFirst(this, bufs) ==
  LET e == TypedValidate(this.id, bufs.payload, 1) IN
  IF e # "" THEN [err |-> e, consulted |-> TRUE]
  ELSE IF NotEquals(this, bufs.format)
    THEN [err |-> "InvalidFormat", consulted |-> TRUE]
    ELSE [err |-> "", consulted |-> TRUE]

\* BufferFormatBase::Validate(const Buffers&): err is the exception thrown
\* ("" when it returns), consulted whether the typed Validate was called.
Validate(this, bufs) ==
  IF NotEquals(this, bufs.format)
    THEN [err |-> "InvalidFormat", consulted |-> FALSE]
    ELSE [err |-> TypedValidate(this.id, bufs.payload, 1), consulted |-> TRUE]

\* The derived format's MustReallocate(const BufferFormatBase<T>&): the
\* element capacity shrank.
TypedMustReallocate(this, other) == other.size < this.size

\* MustReallocate without the test of the incompatible flag.
MustReallocateNoFlag(this, other, typed) ==
  IF NotEquals(this, other)
    THEN [ret |-> TRUE, consulted |-> FALSE]
    ELSE [ret |-> typed, consulted |-> TRUE]

\* BufferFormatBase::MustReallocate(const BufferFormat&); typed is what the
\* typed comparison returns when called, consulted whether it was called.
MustReallocate(this, other, typed) ==
  IF NotEquals(this, other) \/ this.incompatible
    THEN [ret |-> TRUE, consulted |-> FALSE]
    ELSE [ret |-> typed, consulted |-> TRUE]

\* base before a format is constructed.
NoFormatBase == [id |-> "", incompatible |-> FALSE, size |-> 0]

\* The record kept of the last call: its name, the other format (of the
\* buffers, for Validate), the payload, the exception thrown, whether the
\* typed function was called, what the typed comparison gives, the result.
VOp(name, other, payload, err, consulted, typed, ret) ==
  [name |-> name, other |-> other, payload |-> payload, err |-> err,
   consulted |-> consulted, typed |-> typed, ret |-> ret]

\* Payloads of up to MaxPayload elements of type T.
Payloads(T) ==
  UNION {[1..n -> ValuesOf(T)] : n \in 0..MaxPayload}

\* The formats base is compared with: any id, any capacity.
OtherFormats == [id : FormatIdSet, size : 0..MaxCapacity]

\* The formats the buffers handed to Validate are bound to: any id (Validate
\* reads nothing else of the format).
BoundFormats == {[id |-> id, size |-> 0] : id \in FormatIdSet}

\* BufferFormatBase<T>(): incompatible_(false); the derived format of
\* capacity size.
NewFormatBase(T, size) ==
  /\ base' = [id |-> T, incompatible |-> FALSE, size |-> size]
  /\ vop' = VOp("New", NoFormatBase, <<>>, "", FALSE, FALSE, <<>>)
  /\ UNCHANGED notTyped

\* SetIncompatible(value).
CallSetIncompatible(value) ==
  /\ base # NoFormatBase
  /\ base' = [base EXCEPT !.incompatible = value]
  /\ vop' = VOp("SetIncompatible", NoFormatBase, <<>>, "", FALSE, FALSE, <<>>)
  /\ UNCHANGED notTyped

\* Validate(buffers) on buffers bound to format other and holding payload.
CallValidate(other, payload) ==
  /\ base # NoFormatBase
  /\ LET r == Validate(base, [format |-> other, payload |-> payload]) IN
     vop' = VOp("Validate", other, payload, r.err, r.consulted, FALSE, <<>>)
  /\ UNCHANGED base
  /\ UNCHANGED notTyped

\* MustReallocate(other). An IdentityFormat equals every format, so the cast
\* to BufferFormatBase<T> hands the typed comparison an object that is none:
\* what it returns then is not determined.
CallMustReallocate(other) ==
  /\ base # NoFormatBase
  /\ \E typed \in IF other.id = kIdentityID
                    THEN BOOLEAN
                    ELSE {TypedMustReallocate(base, other)} :
       LET r == MustReallocate(base, other, typed) IN
       vop' = VOp("MustReallocate", other, <<>>, "", r.consulted, typed, <<r.ret>>)
  /\ UNCHANGED base
  /\ UNCHANGED notTyped

\* The buffers handed to Validate: bound to any format; the payload is read
\* as elements of T (of base's T when the buffers carry the wildcard format).
NextTyped ==
  \/ \E T \in ElementTypes, size \in 0..MaxCapacity : NewFormatBase(T, size)
  \/ \E value \in BOOLEAN : CallSetIncompatible(value)
  \/ \E other \in BoundFormats :
       \E payload \in Payloads(IF other.id = kIdentityID THEN base.id ELSE other.id) :
         CallValidate(other, payload)
  \/ \E other \in OtherFormats : CallMustReallocate(other)

(***************************************************************************)
(*    Stages: Beat (beat.cc), FilterBank (filter_bank.cc), Diff (diff.cc)  *)
(*                                                                         *)
(* One stage object is constructed and driven through parameter setting,   *)
(* negotiation, Initialize and Do. FilterBank::Do and Diff::Do run as      *)
(* concurrent invocations, one step per loop iteration. The driver keeps   *)
(* to the engine's order (negotiation, then Initialize once, then Do) and  *)
(* calls no setter while a Do invocation is in flight; nothing else is     *)
(* assumed of it. Beat's resolution1, resolution2 and debug, and           *)
(* FilterBank's setters and filter coefficients, are not modelled.         *)
(***************************************************************************)

\* Number of Do invocations the engine runs on the stage.
MaxInvocations == 2

\* Largest worker budget threads_number() / MaxThreadsNumber() returns.
MaxThreads == 2

\* Largest input buffer count handed to OnInputFormatChanged.
MaxBuffersCount == 4

Invocations == 1..MaxInvocations

\* Diff::kNoSWT (diff.h).
kNoSWT == 0

\* Beat's defaults (beat.h).
kDefaultPulses == 3

kDefaultMinBPM == 60

kDefaultMaxBPM == 240

kDefaultPeaks == 3

\* FilterBank's defaults (filter_bank.h).
kDefaultNumber == 32

kDefaultMinFrequency == 130

kDefaultMaxFrequency == 6854

\* The parameter members before any stage is constructed.
NoParams == [none |-> TRUE]

\* out before negotiation.
NotNegotiated == [size |-> 0, count |-> 0]

\* Beat::Beat(): the member initializers.
BeatDefaults ==
  [bands |-> 1, pulses |-> kDefaultPulses, min_bpm |-> kDefaultMinBPM,
   max_bpm |-> kDefaultMaxBPM, peaks |-> kDefaultPeaks]

\* Diff::Diff(): the member initializers.
DiffDefaults == [rectify |-> FALSE, swt |-> kNoSWT]

\* FilterBank::FilterBank(): the member initializers.
FilterBankDefaults ==
  [number |-> kDefaultNumber, frequency_min |-> kDefaultMinFrequency,
   frequency_max |-> kDefaultMaxFrequency]

\* The decimal texts the setters are called with, and the int each denotes.
IntOf ==
  ("-1" :> (0 - 1)) @@ ("0" :> 0) @@ ("1" :> 1) @@ ("2" :> 2) @@ ("4" :> 4) @@
  ("10" :> 10) @@ ("11" :> 11) @@ ("600" :> 600) @@ ("601" :> 601) @@
  ("2049" :> 2049)

\* Parse<int>(name, value): <<the int>>, or <<>> when it throws.
ParseInt(value) == IF value \in DOMAIN IntOf THEN <<IntOf[value]>> ELSE <<>>

\* Parse<bool>(name, value): <<the bool>>, or <<>> when it throws.
ParseBool(value) ==
  IF value = "true" THEN <<TRUE>> ELSE IF value = "false" THEN <<FALSE>> ELSE <<>>

\* What a setter closure does: it returns true or false, or an exception of
\* Parse leaves it; this is the stage's members afterwards.
Accepted(this) == [ret |-> "true", this |-> this]

Rejected(this) == [ret |-> "false", this |-> this]

Threw(this) == [ret |-> "throw", this |-> this]

\* Beat's "bands" setter.
SetBands(this, value) ==
  LET iv == ParseInt(value) IN
  IF iv = <<>> THEN Threw(this)
  ELSE IF iv[1] < 1 THEN Rejected(this)
  ELSE Accepted([this EXCEPT !.bands = iv[1]])

\* Beat's "pulses" setter.
SetPulses(this, value) ==
  LET iv == ParseInt(value) IN
  IF iv = <<>> THEN Threw(this)
  ELSE IF iv[1] < 1 THEN Rejected(this)
  ELSE Accepted([this EXCEPT !.pulses = iv[1]])

\* Beat's "min_bpm" setter.
SetMinBpm(this, value) ==
  LET iv == ParseInt(value) IN
  IF iv = <<>> THEN Threw(this)
  ELSE IF iv[1] < 1 \/ iv[1] > 600 THEN Rejected(this)
  ELSE Accepted([this EXCEPT !.min_bpm = iv[1]])

\* Beat's "max_bpm" setter.
SetMaxBpm(this, value) ==
  LET iv == ParseInt(value) IN
  IF iv = <<>> THEN Threw(this)
  ELSE IF iv[1] < 1 \/ iv[1] > 600 THEN Rejected(this)
  ELSE Accepted([this EXCEPT !.max_bpm = iv[1]])

\* Beat's "max_peaks" setter assigning before it tests the range.
SetMaxPeaksAssignFirst(this, value) ==
  LET iv == ParseInt(value) IN
  IF iv = <<>> THEN Threw(this)
  ELSE IF iv[1] < 1 \/ iv[1] > 10 THEN Rejected([this EXCEPT !.peaks = iv[1]])
  ELSE Accepted([this EXCEPT !.peaks = iv[1]])

\* Beat's "max_peaks" setter.
SetMaxPeaks(this, value) ==
  LET iv == ParseInt(value) IN
  IF iv = <<>> THEN Threw(this)
  ELSE IF iv[1] < 1 \/ iv[1] > 10 THEN Rejected(this)
  ELSE Accepted([this EXCEPT !.peaks = iv[1]])

\* Diff's "rectify" setter.
SetRectify(this, value) ==
  LET bv == ParseBool(value) IN
  IF bv = <<>> THEN Threw(this)
  ELSE Accepted([this EXCEPT !.rectify = bv[1]])

\* Diff's "swt" setter.
SetSwt(this, value) ==
  LET pv == ParseInt(value) IN
  IF pv = <<>> THEN Threw(this)
  ELSE IF pv[1] < 1 /\ pv[1] # kNoSWT THEN Rejected(this)
  ELSE Accepted([this EXCEPT !.swt = pv[1]])

\* Mean::MeanTypesMap: the known type names and the enumerator of each.
MeanTypesMap ==
  ("arithmetic" :> "MEAN_TYPE_ARITHMETIC") @@ ("geometric" :> "MEAN_TYPE_GEOMETRIC")

\* Mean::kDefaultMeanTypes.
kDefaultMeanTypes == {"MEAN_TYPE_ARITHMETIC"}

\* Mean::Mean(): types_(kDefaultMeanTypes).
MeanDefaults == [types |-> kDefaultMeanTypes]

\* The texts the "types" setter is called with, each cut at its white space
\* into chunks.
ChunksOf ==
  ("" :> <<>>) @@
  ("arithmetic" :> <<"arithmetic">>) @@
  ("geometric" :> <<"geometric">>) @@
  ("geometric arithmetic" :> <<"geometric", "arithmetic">>) @@
  ("geometric bogus" :> <<"geometric", "bogus">>) @@
  ("bogus geometric" :> <<"bogus", "geometric">>) @@
  ("geometric a-b" :> <<"geometric", "a-b">>)

\* A chunk matches \w+.
IsWord(chunk) == chunk # "a-b"

\* regex_match(value, allRegex), allRegex = ^\s*(\w+\s*(\s|$))+ : one or more
\* words separated by white space and nothing else.
AllRegexMatch(value) ==
  LET c == ChunksOf[value] IN
  Len(c) >= 1 /\ \A i \in 1..Len(c) : IsWord(c[i])

\* The while loop over the tokens: an unknown token returns false, a known
\* one is inserted into types_.
RECURSIVE TypesLoop(_, _, _)
TypesLoop(this, tokens, i) ==
  IF i > Len(tokens) THEN Accepted(this)
  ELSE IF tokens[i] \notin DOMAIN MeanTypesMap THEN Rejected(this)
  ELSE TypesLoop([this EXCEPT !.types = @ \cup {MeanTypesMap[tokens[i]]}],
                 tokens, i + 1)

\* Mean's "types" setter.
SetTypes(this, value) ==
  IF ~AllRegexMatch(value) THEN Rejected(this)
  ELSE TypesLoop(this, ChunksOf[value], 1)

\* FilterBank::validate_number.
ValidateNumber(value) == value <= 2048

\* FilterBank's "number" setter, as TP(number, int, ...) declares it: the text
\* is parsed, validate_number is asked, and number_ is assigned only when it
\* agrees; otherwise InvalidParameterValue is thrown.
SetNumber(this, value) ==
  LET iv == ParseInt(value) IN
  IF iv = <<>> THEN Threw(this)
  ELSE IF ~ValidateNumber(iv[1]) THEN Threw(this)
  ELSE Accepted([this EXCEPT !.number = iv[1]])

\* FilterBank::Initialize: filter_bank_.resize(number_) (a negative number_
\* converts to a size above max_size(): std::length_error), the loop
\* for (i = 0; i < number_; i++) builds the filters, and the spacing is
\* dsc = (scaleMax - scaleMin) / (number_ + 1).
FilterBankInitialize(this) ==
  [thrown |-> this.number < 0,
   filters |-> IF this.number < 0 THEN 0 ELSE this.number,
   divisor |-> this.number + 1]

\* Mean::Do on one buffer: the slot of a mean type in types_ gets the mean of
\* the input, every other slot 0.
MeanDo(this) ==
  [mt \in {MeanTypesMap[t] : t \in DOMAIN MeanTypesMap} |->
     IF mt \in this.types THEN "mean" ELSE "0"]

\* The setters each stage registers (RegisterSetter), by name.
SetterNames(k) ==
  CASE k = "Beat" -> {"bands", "pulses", "min_bpm", "max_bpm", "max_peaks"}
    [] k = "Diff" -> {"rectify", "swt"}
    [] k = "Mean" -> {"types"}
    [] k = "FilterBank" -> {"number"}
    [] OTHER -> {}

\* The setter closure registered under a name.
Setter(name, this, value) ==
  CASE name = "bands" -> SetBands(this, value)
    [] name = "pulses" -> SetPulses(this, value)
    [] name = "min_bpm" -> SetMinBpm(this, value)
    [] name = "max_bpm" -> SetMaxBpm(this, value)
    [] name = "max_peaks" -> SetMaxPeaks(this, value)
    [] name = "rectify" -> SetRectify(this, value)
    [] name = "swt" -> SetSwt(this, value)
    [] name = "types" -> SetTypes(this, value)
    [] name = "number" -> SetNumber(this, value)

\* The texts each setter is called with: values inside, on and outside its
\* limits, and one that is no number.
SetterInputs(name) ==
  CASE name = "bands" -> {"x", "0", "2"}
    [] name = "pulses" -> {"0", "1"}
    [] name = "min_bpm" -> {"0", "1", "601"}
    [] name = "max_bpm" -> {"0", "600", "601"}
    [] name = "max_peaks" -> {"0", "4", "10", "11"}
    [] name = "rectify" -> {"true", "false", "x"}
    [] name = "swt" -> {"-1", "0", "1", "x"}
    [] name = "types" -> DOMAIN ChunksOf
    [] name = "number" -> {"-1", "0", "2049", "x"}

\* Beat::OnInputFormatChanged returning the input buffer count as it is.
BeatOnInputFormatChangedNoBands(this, buffersCount) ==
  [thrown |-> FALSE, out |-> [size |-> this.peaks, count |-> buffersCount]]

\* Beat::OnInputFormatChanged(buffersCount): outputFormat_->SetSize(peaks_);
\* return buffersCount / bands_.
BeatOnInputFormatChanged(this, buffersCount) ==
  [thrown |-> FALSE,
   out |-> [size |-> this.peaks, count |-> buffersCount \div this.bands]]

\* FilterBank::OnInputFormatChanged(buffersCount) on an input format of
\* inSize elements at inRate Hz. start, finish and length are size_t: for the
\* non-negative frequencies modelled the products stay far below 2^64, and
\* finish - start wraps to a value above every inSize when finish < start.
FilterBankOnInputFormatChanged(this, inSize, inRate, buffersCount) ==
  LET start == (this.frequency_min * 2 * inSize) \div inRate
      finish == (this.frequency_max * 2 * inSize) \div inRate
      lengthAboveSize == finish < start \/ finish - start > inSize
      lengthIsZero == finish = start
  IN IF lengthAboveSize \/ lengthIsZero
       THEN [thrown |-> TRUE, out |-> NotNegotiated]
       ELSE [thrown |-> FALSE, out |-> [size |-> this.number, count |-> buffersCount]]

\* RDFT::OnFormatChanged(buffersCount) on an input format of inSize elements.
RDFTOnFormatChanged(inSize, buffersCount) ==
  [thrown |-> FALSE, out |-> [size |-> inSize + 2, count |-> buffersCount]]

\* RDFTInverse::OnFormatChanged(buffersCount). Size() - 2 is computed in
\* size_t: below 2 it wraps to 2^64 - 2 + inSize, which is written here as
\* the negative number congruent to it modulo 2^64.
RDFTInverseOnFormatChanged(inSize, buffersCount) ==
  [thrown |-> FALSE, out |-> [size |-> inSize - 2, count |-> buffersCount]]

\* a > b on two size_t values written that way: a negative number stands
\* for a value of at least 2^63, above every value written as it is.
SizeTGreater(a, b) ==
  IF (a < 0) = (b < 0) THEN a > b ELSE a < 0

\* std::mutex::try_lock by invocation p on a mutex m (0 = free, else its
\* owner): it never blocks; it locks only a free mutex.
TryLockAlways(m, p) == [ok |-> TRUE, m |-> p]

\* try_lock that fails on every mutex.
TryLockNever(m, p) == [ok |-> FALSE, m |-> m]

TryLock(m, p) == IF m = 0 THEN [ok |-> TRUE, m |-> p] ELSE [ok |-> FALSE, m |-> m]

\* std::mutex::unlock.
UnlockForgotten(m) == m

Unlock(m) == 0

SOp(name, arg, value, ret) ==
  [name |-> name, arg |-> arg, value |-> value, ret |-> ret]

Phases == <<"None", "Constructed", "Configured", "Negotiated", "Initialized", "Running">>

PhaseRank(ph) == CHOOSE i \in 1..Len(Phases) : Phases[i] = ph

NoDoInFlight == \A p \in Invocations : pc[p] \in {"idle", "done"}

\* The factory constructs a stage: Beat::Beat(), FilterBank::FilterBank(),
\* Diff::Diff(), Mean::Mean(), RDFT or RDFTInverse (which have no parameters
\* of their own).
Construct(k) ==
  /\ kind = "none"
  /\ kind' = k
  /\ params' = CASE k = "Beat" -> BeatDefaults
                 [] k = "Diff" -> DiffDefaults
                 [] k = "FilterBank" -> FilterBankDefaults
                 [] k = "Mean" -> MeanDefaults
                 [] OTHER -> NoParams
  /\ phase' = "Constructed"
  /\ sop' = SOp("Construct", k, "", "")
  /\ UNCHANGED <<out, pool, pc, idx>>
  /\ UNCHANGED notStage

\* A parameter is set by name: the registered closure runs. The closures test
\* nothing but the value.
SetParameter(name, value) ==
  /\ name \in SetterNames(kind)
  /\ NoDoInFlight
  /\ LET r == Setter(name, params, value) IN
     /\ params' = r.this
     /\ sop' = SOp("Set", name, value, r.ret)
  /\ phase' = IF phase = "Constructed" THEN "Configured" ELSE phase
  /\ UNCHANGED <<kind, out, pool, pc, idx>>
  /\ UNCHANGED notStage

\* sop.arg of a negotiation: whether the stage had been negotiated before.
Nth == IF phase = "Negotiated" THEN "again" ELSE "first"

\* Negotiation of Beat.
CallBeatOnInputFormatChanged(buffersCount) ==
  /\ kind = "Beat"
  /\ phase \in {"Constructed", "Configured", "Negotiated"}
  /\ out' = BeatOnInputFormatChanged(params, buffersCount).out
  /\ phase' = "Negotiated"
  /\ sop' = SOp("Negotiate", Nth, "", "ok")
  /\ UNCHANGED <<kind, params, pool, pc, idx>>
  /\ UNCHANGED notStage

\* Negotiation of FilterBank; InvalidFrequencyRangeException leaves the stage
\* not negotiated.
CallFilterBankOnInputFormatChanged(inSize, inRate, buffersCount) ==
  /\ kind = "FilterBank"
  /\ phase \in {"Constructed", "Configured", "Negotiated"}
  /\ LET r == FilterBankOnInputFormatChanged(params, inSize, inRate, buffersCount) IN
     /\ out' = IF r.thrown THEN out ELSE r.out
     /\ phase' = IF r.thrown THEN phase ELSE "Negotiated"
     /\ sop' = SOp("Negotiate", Nth, "",
                   IF r.thrown THEN "InvalidFrequencyRange" ELSE "ok")
  /\ UNCHANGED <<kind, params, pool, pc, idx>>
  /\ UNCHANGED notStage

\* Negotiation of Diff, a uniform stage: the output format is the input format.
CallDiffOnFormatChanged ==
  /\ kind = "Diff"
  /\ phase \in {"Constructed", "Configured", "Negotiated"}
  /\ phase' = "Negotiated"
  /\ sop' = SOp("Negotiate", Nth, "", "ok")
  /\ UNCHANGED <<kind, params, out, pool, pc, idx>>
  /\ UNCHANGED notStage

\* Negotiation of RDFT that changes the output format only the first time.
CallRDFTOnFormatChangedOnce(inSize, buffersCount) ==
  /\ kind \in {"RDFT", "RDFTInverse"}
  /\ phase \in {"Constructed", "Configured", "Negotiated"}
  /\ out' = IF phase = "Negotiated" THEN out
              ELSE IF kind = "RDFT"
                THEN RDFTOnFormatChanged(inSize, buffersCount).out
                ELSE RDFTInverseOnFormatChanged(inSize, buffersCount).out
  /\ phase' = "Negotiated"
  /\ sop' = SOp("Negotiate", Nth, "", "ok")
  /\ UNCHANGED <<kind, params, pool, pc, idx>>
  /\ UNCHANGED notStage

\* Negotiation of RDFT and RDFTInverse on an input format of inSize elements.
CallRDFTOnFormatChanged(inSize, buffersCount) ==
  /\ kind \in {"RDFT", "RDFTInverse"}
  /\ phase \in {"Constructed", "Configured", "Negotiated"}
  /\ out' = IF kind = "RDFT"
              THEN RDFTOnFormatChanged(inSize, buffersCount).out
              ELSE RDFTInverseOnFormatChanged(inSize, buffersCount).out
  /\ phase' = "Negotiated"
  /\ sop' = SOp("Negotiate", Nth, "", "ok")
  /\ UNCHANGED <<kind, params, pool, pc, idx>>
  /\ UNCHANGED notStage

\* Initialize(): FilterBank sizes buffers_ to threads_number(), Diff sizes
\* swt_buffers_ to MaxThreadsNumber() when swt_ is set, Beat allocates its one
\* buffer_. count is what threads_number() / MaxThreadsNumber() returns.
StageInitialize(count) ==
  /\ kind # "none"
  /\ phase = "Negotiated"
  /\ pool' = IF kind = "FilterBank" \/ (kind = "Diff" /\ params.swt # kNoSWT)
               THEN [i \in 1..count |-> 0]
               ELSE pool
  /\ phase' = "Initialized"
  /\ sop' = SOp("Initialize", "", "", "")
  /\ UNCHANGED <<kind, params, out, pc, idx>>
  /\ UNCHANGED notStage

\* Beat::Do on one batch.
BeatDo ==
  /\ kind = "Beat"
  /\ phase \in {"Initialized", "Running"}
  /\ phase' = "Running"
  /\ sop' = SOp("Do", "", "", "")
  /\ UNCHANGED <<kind, params, out, pool, pc, idx>>
  /\ UNCHANGED notStage

\* An invocation of FilterBank::Do / Diff::Do starts: executed = false. Diff
\* without SWT takes the path that uses no scratch buffer.
DoEnter(p) ==
  /\ kind \in {"FilterBank", "Diff"}
  /\ phase \in {"Initialized", "Running"}
  /\ pc[p] = "idle"
  /\ pc' = [pc EXCEPT ![p] = IF kind = "Diff" /\ params.swt = kNoSWT
                               THEN "direct" ELSE "while"]
  /\ phase' = "Running"
  /\ UNCHANGED <<kind, params, out, pool, idx, sop>>
  /\ UNCHANGED notStage

\* Diff::Do without SWT: DoRectify or Do on the input, then return.
DoDirect(p) ==
  /\ pc[p] = "direct"
  /\ pc' = [pc EXCEPT ![p] = "done"]
  /\ UNCHANGED <<kind, params, out, phase, pool, idx, sop>>
  /\ UNCHANGED notStage

\* while (!executed): the for loop starts at the first slot.
DoWhile(p) ==
  /\ pc[p] = "while"
  /\ pc' = [pc EXCEPT ![p] = "for"]
  /\ idx' = [idx EXCEPT ![p] = 0]
  /\ UNCHANGED <<kind, params, out, phase, pool, sop>>
  /\ UNCHANGED notStage

\* The for loop is past the last slot: back to the while test.
DoForEnd(p) ==
  /\ pc[p] = "for"
  /\ idx[p] >= Len(pool)
  /\ pc' = [pc EXCEPT ![p] = "while"]
  /\ UNCHANGED <<kind, params, out, phase, pool, idx, sop>>
  /\ UNCHANGED notStage

\* if (buf.mutex.try_lock()) on the slot the for loop is at; on failure the
\* loop moves to the next slot.
DoTryLock(p) ==
  /\ pc[p] = "for"
  /\ idx[p] < Len(pool)
  /\ LET r == TryLock(pool[idx[p] + 1], p) IN
     /\ pool' = [pool EXCEPT ![idx[p] + 1] = r.m]
     /\ pc' = [pc EXCEPT ![p] = IF r.ok THEN "locked" ELSE "for"]
     /\ idx' = [idx EXCEPT ![p] = IF r.ok THEN idx[p] ELSE idx[p] + 1]
  /\ UNCHANGED <<kind, params, out, phase, sop>>
  /\ UNCHANGED notStage

\* The work on the locked scratch buffer, then mutex.unlock(); Diff then
\* rectifies the output when rectify_ is set; executed = true; break.
DoWorkUnlock(p) ==
  /\ pc[p] = "locked"
  /\ pool' = [pool EXCEPT ![idx[p] + 1] = Unlock(pool[idx[p] + 1])]
  /\ pc' = [pc EXCEPT ![p] = IF kind = "Diff" /\ params.rectify
                               THEN "rectify" ELSE "done"]
  /\ UNCHANGED <<kind, params, out, phase, idx, sop>>
  /\ UNCHANGED notStage

\* Rectify(out) after the unlock, then executed = true; break; return.
DoRectifyAfterUnlock(p) ==
  /\ pc[p] = "rectify"
  /\ pc' = [pc EXCEPT ![p] = "done"]
  /\ UNCHANGED <<kind, params, out, phase, pool, idx, sop>>
  /\ UNCHANGED notStage

\* The next step of invocation p inside Do, on the worker thread that runs it.
DoStep(p) ==
  \/ DoDirect(p)
  \/ DoWhile(p)
  \/ DoForEnd(p)
  \/ DoTryLock(p)
  \/ DoWorkUnlock(p)
  \/ DoRectifyAfterUnlock(p)

\* Input formats FilterBank negotiates on: (size, sampling rate).
FilterBankInputs == {<<256, 8000>>, <<256, 13500>>, <<256, 16000>>}

\* Input format sizes RDFT and RDFTInverse negotiate on.
RDFTInputs == {0, 1, 2, 4, 256}

\* The stages the factory knows.
Kinds == {"Beat", "FilterBank", "Diff", "Mean", "RDFT", "RDFTInverse"}

NextStage ==
  \/ \E k \in Kinds : Construct(k)
  \/ \E name \in SetterNames(kind) : \E value \in SetterInputs(name) :
       SetParameter(name, value)
  \/ \E c \in 0..MaxBuffersCount : CallBeatOnInputFormatChanged(c)
  \/ \E in \in FilterBankInputs, c \in 0..MaxBuffersCount :
       CallFilterBankOnInputFormatChanged(in[1], in[2], c)
  \/ CallDiffOnFormatChanged
  \/ \E n \in RDFTInputs, c \in 0..MaxBuffersCount : CallRDFTOnFormatChanged(n, c)
  \/ \E count \in 0..MaxThreads : StageInitialize(count)
  \/ BeatDo
  \/ \E p \in Invocations : DoEnter(p)
  \/ \E p \in Invocations : DoDirect(p)
  \/ \E p \in Invocations : DoWhile(p)
  \/ \E p \in Invocations : DoForEnd(p)
  \/ \E p \in Invocations : DoTryLock(p)
  \/ \E p \in Invocations : DoWorkUnlock(p)
  \/ \E p \in Invocations : DoRectifyAfterUnlock(p)

(***************************************************************************)
(*          Diff::Do and Diff::DoRectify on one array (diff.cc)            *)
(*                                                                         *)
(* The static functions Do(simd, input, length, output) and DoRectify as   *)
(* an AVX build compiles them; float values are small integers, on which   *)
(* float subtraction is exact. C indices count from 0, sequences from 1.   *)
(***************************************************************************)

\* Longest array handed to Diff.
MaxLength == 3

\* The values of the input elements.
SampleValues == {0 - 2, 0, 1}

\* What an output element may hold before Diff writes it.
Garbage == {0 - 99, 99}

\* The arrays of length 1..MaxLength over a set of values.
Arrays(values) == UNION {[1..n -> values] : n \in 1..MaxLength}

\* Lengths around the width of the AVX loops (8 floats, and 16 in Rectify).
LongLengths == {8, 9, 16, 17}

\* One input array and one unwritten output array of each such length.
LongInput(n) ==
  [k \in 1..n |-> IF k % 3 = 0 THEN 1 ELSE IF k % 3 = 1 THEN 0 - 2 ELSE 0]

LongOutput(n) == [k \in 1..n |-> 99]

\* for (int i = 1; i < length - 7; i += 8): eight differences at a time,
\* stored at output + i - 1.
RECURSIVE DoAvxLoop(_, _, _, _, _)
DoAvxLoop(input, output, i, length, rectify) ==
  IF i < length - 7
    THEN DoAvxLoop(input,
                   [k \in 1..Len(output) |->
                      IF k - 1 \in (i - 1)..(i + 6)
                        THEN LET d == input[k + 1] - input[k] IN
                             IF rectify /\ d < 0 THEN 0 ELSE d
                        ELSE output[k]],
                   i + 8, length, rectify)
    ELSE output

\* for (int i = from; i < length - 1; i++) output[i] = input[i + 1] - input[i]
\* (and, in DoRectify, if (output[i] < 0) output[i] = 0).
RECURSIVE DoScalarLoop(_, _, _, _, _)
DoScalarLoop(input, output, i, length, rectify) ==
  IF i < length - 1
    THEN LET d == input[i + 2] - input[i + 1] IN
         DoScalarLoop(input,
                      [output EXCEPT ![i + 1] = IF rectify /\ d < 0 THEN 0 ELSE d],
                      i + 1, length, rectify)
    ELSE output

\* length & ~0x7.
AndNot7(length) == length - (length % 8)

\* The loops of Do / DoRectify: the AVX loop and its tail when simd, the plain
\* loop otherwise.
DiffLoops(simd, input, length, output, rectify) ==
  IF simd
    THEN DoScalarLoop(input, DoAvxLoop(input, output, 1, length, rectify),
                      AndNot7(length), length, rectify)
    ELSE DoScalarLoop(input, output, 0, length, rectify)

\* Diff::Do with the last element differentiated like the others would be:
\* output[length - 1] is left as it was.
DiffDoNoWraparound(simd, input, length, output) ==
  DiffLoops(simd, input, length, output, FALSE)

\* Diff::Do(simd, input, length, output): the loops, then
\* output[length - 1] = input[0] - input[length - 1].
DiffDo(simd, input, length, output) ==
  [DiffLoops(simd, input, length, output, FALSE)
     EXCEPT ![length] = input[1] - input[length]]

\* Diff::DoRectify(simd, input, length, output): the loops with the clamp,
\* then last = input[0] - input[length - 1]; output[length - 1] = last < 0 ? 0
\* : last.
DiffDoRectify(simd, input, length, output) ==
  LET last == input[1] - input[length] IN
  [DiffLoops(simd, input, length, output, TRUE)
     EXCEPT ![length] = IF last < 0 THEN 0 ELSE last]

\* for (int i = 0; i < length - 15; i += 16): sixteen elements at a time,
\* each max(input[k], 0), stored at output + i.
RECURSIVE RectifyAvxLoop(_, _, _, _)
RectifyAvxLoop(input, output, i, length) ==
  IF i < length - 15
    THEN RectifyAvxLoop(input,
                        [k \in 1..Len(output) |->
                           IF k - 1 \in i..(i + 15)
                             THEN IF input[k] < 0 THEN 0 ELSE input[k]
                             ELSE output[k]],
                        i + 16, length)
    ELSE output

\* for (int i = from; i < length; i++) output[i] = input[i] < 0 ? 0 : input[i].
RECURSIVE RectifyScalarLoop(_, _, _, _)
RectifyScalarLoop(input, output, i, length) ==
  IF i < length
    THEN RectifyScalarLoop(input,
                           [output EXCEPT ![i + 1] =
                              IF input[i + 1] < 0 THEN 0 ELSE input[i + 1]],
                           i + 1, length)
    ELSE output

\* Diff::Rectify(simd, input, length, output).
Rectify(simd, input, length, output) ==
  IF simd
    THEN RectifyScalarLoop(input, RectifyAvxLoop(input, output, 0, length),
                           AndNot7(length), length)
    ELSE RectifyScalarLoop(input, output, 0, length)

\* The record kept of the last call.
DOp(name, simd) == [name |-> name, simd |-> simd]

\* The engine hands Diff an input array and an output array of the same
\* length, the output not yet written.
DiffBuffers(input, output) ==
  /\ Len(input) = Len(output)
  /\ din' = input
  /\ dout' = output
  /\ dop' = DOp("Buffers", FALSE)
  /\ UNCHANGED notDiff

\* Diff::Do(in, out) without SWT: DoRectify when rectify_ is set, else Do;
\* simd is what UseSimd() returns.
CallDiffDo(rectify, simd) ==
  /\ dop.name = "Buffers"
  /\ dout' = IF rectify THEN DiffDoRectify(simd, din, Len(din), dout)
                        ELSE DiffDo(simd, din, Len(din), dout)
  /\ dop' = DOp(IF rectify THEN "DoRectify" ELSE "Do", simd)
  /\ UNCHANGED din
  /\ UNCHANGED notDiff

\* Diff::Rectify on the arrays.
CallRectify(simd) ==
  /\ dop.name = "Buffers"
  /\ dout' = Rectify(simd, din, Len(din), dout)
  /\ dop' = DOp("Rectify", simd)
  /\ UNCHANGED din
  /\ UNCHANGED notDiff

NextDiff ==
  \/ \E input \in Arrays(SampleValues), output \in Arrays(Garbage) :
       DiffBuffers(input, output)
  \/ \E n \in LongLengths : DiffBuffers(LongInput(n), LongOutput(n))
  \/ \E rectify \in BOOLEAN, simd \in BOOLEAN : CallDiffDo(rectify, simd)
  \/ \E simd \in BOOLEAN : CallRectify(simd)

(***************************************************************************)
(*                 Beat::Do on one batch of buffers (beat.cc)              *)
(*                                                                         *)
(* A Beat stage with given bands_ and peaks_ is negotiated on count input  *)
(* buffers, its output buffers are allocated, and Do runs over the groups  *)
(* of bands_ input buffers. The energies and detect_peaks are computed     *)
(* outside beat.cc's control flow: what detect_peaks finds for each group  *)
(* is an input of the model. An output field holds "?" until written, "0"  *)
(* when zeroed and "e" when CalculateBeatEnergies stored a value in it.    *)
(***************************************************************************)

\* Most peaks detect_peaks finds in one group.
MaxFound == 3

\* Largest bands_ and largest peaks_ the stage is configured with.
MaxBands == 2

MaxPeaks == 2

\* What detect_peaks hands back: results == nullptr, or found_peaks_count
\* extremum points.
PeakResults ==
  {[null |-> TRUE, count |-> 0]} \cup
  {[null |-> FALSE, count |-> k] : k \in 0..MaxFound}

\* bdo before any stage is set up.
NoBeatDo ==
  [bands |-> 1, peaks |-> 1, count |-> 0, found |-> <<>>, state |-> "none"]

Unwritten == <<"?", "?">>

Zeroed == <<"0", "0">>

Stored == <<"e", "e">>

\* The number of passes of for (ini = 0; ini < in.Count(); ini += bands_).
Groups(this) == (this.count + this.bands - 1) \div this.bands

\* The values ini takes in for (ini = 0; ini < in.Count(); ini += bands_).
Inis(this) == {ini \in 0..(this.count - 1) : ini % this.bands = 0}

\* The output buffer indices ini / bands_ the passes write to, and the slot
\* indices i, pind they write in each.
BuffersWritten(this) == {ini \div this.bands : ini \in Inis(this)}

SlotsWritten(this) == 0..(this.peaks - 1)

\* One pass that skips the zero fill when results == nullptr.
DoGroupNoFallback(this, buffer, f) ==
  IF f.null
    THEN buffer
    ELSE LET rcount == IF f.count > this.peaks THEN this.peaks ELSE f.count IN
         [i \in 1..Len(buffer) |->
            IF i <= rcount THEN Stored
            ELSE IF i <= this.peaks THEN Zeroed
            ELSE buffer[i]]

\* One pass of the loop on the output buffer (*out)[ini / bands_]: when
\* results == nullptr slots 0..peaks_-1 are zeroed; else slots 0..rcount-1 get
\* the second pass's (bpm, energy) and slots rcount..peaks_-1 are zeroed.
DoGroup(this, buffer, f) ==
  IF f.null
    THEN [i \in 1..Len(buffer) |-> IF i <= this.peaks THEN Zeroed ELSE buffer[i]]
    ELSE LET rcount == IF f.count > this.peaks THEN this.peaks ELSE f.count IN
         [i \in 1..Len(buffer) |->
            IF i <= rcount THEN Stored
            ELSE IF i <= this.peaks THEN Zeroed
            ELSE buffer[i]]

\* Beat::Do(in, out): the passes over the groups, in order. A pass whose
\* output index ini / bands_ is past the last output buffer writes outside
\* the output buffers; those are left as they are.
RECURSIVE BeatDoLoop(_, _, _, _)
BeatDoLoop(this, output, found, g) ==
  IF g > Groups(this) THEN output
  ELSE IF g > Len(output) THEN BeatDoLoop(this, output, found, g + 1)
  ELSE BeatDoLoop(this, [output EXCEPT ![g] = DoGroup(this, output[g], found[g])],
                  found, g + 1)

\* A stage is constructed, configured with bands and max_peaks, negotiated on
\* count input buffers, and its output buffers are allocated as negotiated.
BeatSetUp(bands, peaks, count) ==
  /\ LET this == [bands |-> bands, peaks |-> peaks, count |-> count,
                  found |-> <<>>, state |-> "ready"]
         o == BeatOnInputFormatChanged(this, count).out
     IN /\ bdo' = this
        /\ bout' = [g \in 1..o.count |-> [i \in 1..o.size |-> Unwritten]]
  /\ UNCHANGED notBeatDo

\* Beat::Do on the batch; found is what detect_peaks returns in each pass.
CallBeatDo(found) ==
  /\ bdo.state = "ready"
  /\ bdo' = [bdo EXCEPT !.found = found, !.state = "done"]
  /\ bout' = BeatDoLoop(bdo, bout, found, 1)
  /\ UNCHANGED notBeatDo

NextBeatDo ==
  \/ \E bands \in 1..MaxBands, peaks \in 1..MaxPeaks, count \in 0..MaxBuffersCount :
       BeatSetUp(bands, peaks, count)
  \/ \E found \in [1..Groups(bdo) -> PeakResults] : CallBeatDo(found)

(***************************************************************************)
(*     The allocator's tree and Validate (tests/allocators/                *)
(*     buffers_allocator.cc; the allocator itself is outside src/)         *)
(*                                                                         *)
(* The tree is the one the test fixture builds; its nodes are numbered in  *)
(* the order of the Next chain. The tests change one or two fields of a    *)
(* node and call Validate. Validate is modelled from the specification and *)
(* from what the tests expect of it.                                       *)
(***************************************************************************)

\* Number of fields changed between SetUp and Validate (ValidateZeroSize
\* changes two).
MaxEdits == 2

\* Node::UNINITIALIZED_ADDRESS.
UNINITIALIZED_ADDRESS == 0 - 1

\* The null Node pointer.
NoNode == 0

Node(size, parent, item, address, next) ==
  [Size |-> size, Parent |-> parent, Item |-> item, Address |-> address,
   Next |-> next]

\* BuffersAllocatorTest::SetUp: Root, Root's children 2 and 3, 3's children
\* 4, 5 and 6, 4's children 7 and 8, 5's child 9, 9's child 10.
SetUp ==
  << Node(1, NoNode, 1, 0, 2),
     Node(1, 1, 2, 1, 3),
     Node(2, 1, 3, 2, 4),
     Node(3, 3, 4, 4, 5),
     Node(2, 3, 5, 7, 6),
     Node(4, 3, 6, 9, 7),
     Node(1, 4, 7, 0, 8),
     Node(2, 4, 8, 2, 9),
     Node(1, 5, 9, 13, 10),
     Node(1, 9, 10, 4, NoNode) >>

Nodes(t) == 1..Len(t)

\* NodesCount(tree): the nodes reached from the root through Children.
NodesCount(t) == Len(t)

IsLeaf(t, n) == \A m \in Nodes(t) : t[m].Parent # n

\* Intersect without the test of the sizes.
IntersectAnySize(a, b) ==
  /\ a.Address < b.Address + b.Size
  /\ b.Address < a.Address + a.Size

\* [Address, Address + Size) of two nodes have an address in common.
Intersect(a, b) ==
  /\ a.Size > 0 /\ b.Size > 0
  /\ a.Address < b.Address + b.Size
  /\ b.Address < a.Address + a.Size

\* The nodes the Next chain visits from node n on, in order, for at most
\* steps nodes.
RECURSIVE Chain(_, _, _)
Chain(t, n, steps) ==
  IF n = NoNode \/ steps = 0 THEN <<>>
  ELSE <<n>> \o Chain(t, t[n].Next, steps - 1)

\* The chain from the root visits every node once and then ends.
FullyLinked(t) ==
  LET c == Chain(t, 1, NodesCount(t) + 1) IN
  /\ Len(c) = NodesCount(t)
  /\ {c[i] : i \in 1..Len(c)} = Nodes(t)

\* Validate without the walk along the Next chain.
ValidateTreeNoChain(t) ==
  /\ \A n \in Nodes(t) : t[n].Address # UNINITIALIZED_ADDRESS
  /\ \A n \in Nodes(t), m \in Nodes(t) : n # m => t[n].Item # t[m].Item
  /\ \A n \in Nodes(t) :
       t[n].Parent # NoNode => ~Intersect(t[n], t[t[n].Parent])
  /\ \A n \in Nodes(t), m \in Nodes(t) :
       (n # m /\ IsLeaf(t, n) /\ IsLeaf(t, m)) => ~Intersect(t[n], t[m])

\* Validate without the test of the addresses against the sentinel.
ValidateTreeNoAddress(t) ==
  /\ FullyLinked(t)
  /\ \A n \in Nodes(t), m \in Nodes(t) : n # m => t[n].Item # t[m].Item
  /\ \A n \in Nodes(t) :
       t[n].Parent # NoNode => ~Intersect(t[n], t[t[n].Parent])
  /\ \A n \in Nodes(t), m \in Nodes(t) :
       (n # m /\ IsLeaf(t, n) /\ IsLeaf(t, m)) => ~Intersect(t[n], t[m])

\* Validate without the test of a node against the other leaves.
ValidateTreeParentOnly(t) ==
  /\ \A n \in Nodes(t) : t[n].Address # UNINITIALIZED_ADDRESS
  /\ FullyLinked(t)
  /\ \A n \in Nodes(t), m \in Nodes(t) : n # m => t[n].Item # t[m].Item
  /\ \A n \in Nodes(t) :
       t[n].Parent # NoNode => ~Intersect(t[n], t[t[n].Parent])

\* BuffersAllocator::Validate(tree): every node has an address, the Next
\* chain is complete, no two nodes stand for the same buffer, and no node's
\* range meets its parent's or another leaf's.
ValidateTree(t) ==
  /\ \A n \in Nodes(t) : t[n].Address # UNINITIALIZED_ADDRESS
  /\ FullyLinked(t)
  /\ \A n \in Nodes(t), m \in Nodes(t) : n # m => t[n].Item # t[m].Item
  /\ \A n \in Nodes(t) :
       t[n].Parent # NoNode => ~Intersect(t[n], t[t[n].Parent])
  /\ \A n \in Nodes(t), m \in Nodes(t) :
       (n # m /\ IsLeaf(t, n) /\ IsLeaf(t, m)) => ~Intersect(t[n], t[m])

\* The values the tests store into a node's fields.
AddressInputs == {0, 2, 3, 4, 13, UNINITIALIZED_ADDRESS}

SizeInputs == {0, 1}

\* The nodes whose fields are changed: the three the tests change (10, 6
\* and 5) and the leaves 2 and 8.
EditedNodes == {2, 5, 6, 8, 10}

\* The nodes a changed Next points to, and the node a changed Item is taken
\* from: Root->Children[1], or no node.
NextInputs == {NoNode, 3}

ItemInputs == {3}

\* A test stores a value into one field of one node.
EditAddress(n, a) ==
  /\ edits < MaxEdits
  /\ tree' = [tree EXCEPT ![n].Address = a]
  /\ edits' = edits + 1
  /\ verdict' = "none"
  /\ UNCHANGED notAllocator

EditSize(n, size) ==
  /\ edits < MaxEdits
  /\ tree' = [tree EXCEPT ![n].Size = size]
  /\ edits' = edits + 1
  /\ verdict' = "none"
  /\ UNCHANGED notAllocator

EditNext(n, next) ==
  /\ edits < MaxEdits
  /\ tree' = [tree EXCEPT ![n].Next = next]
  /\ edits' = edits + 1
  /\ verdict' = "none"
  /\ UNCHANGED notAllocator

EditItem(n, m) ==
  /\ edits < MaxEdits
  /\ tree' = [tree EXCEPT ![n].Item = tree[m].Item]
  /\ edits' = edits + 1
  /\ verdict' = "none"
  /\ UNCHANGED notAllocator

\* ASSERT_TRUE / ASSERT_FALSE(Validate(*Root)).
CallValidateTree ==
  /\ verdict = "none"
  /\ verdict' = IF ValidateTree(tree) THEN "true" ELSE "false"
  /\ UNCHANGED <<tree, edits>>
  /\ UNCHANGED notAllocator

NextAllocator ==
  \/ \E n \in EditedNodes, a \in AddressInputs : EditAddress(n, a)
  \/ \E n \in EditedNodes, size \in SizeInputs : EditSize(n, size)
  \/ \E n \in EditedNodes, next \in NextInputs : EditNext(n, next)
  \/ \E n \in EditedNodes, m \in ItemInputs : EditItem(n, m)
  \/ CallValidateTree

(***************************************************************************)
(*                 Energy on one batch of buffers (energy.cc)              *)
(*                                                                         *)
(* The input buffers hold (re, im) pairs as consecutive floats; floats are *)
(* small integers, on which the squares and sums are exact. TypeSafeDo is  *)
(* modelled as an AVX build compiles it. Besides the output it leaves, a   *)
(* call records every index it read from an input array and wrote to an    *)
(* output array, inside the array or not; a write outside the array leaves *)
(* the array as it is.                                                     *)
(***************************************************************************)

\* Largest input format size of the batches enumerated in full.
MaxEnergySize == 4

\* Most buffers in a batch.
MaxBatch == 2

\* The values of the input elements.
EnergyValues == {0 - 1, 2}

\* Input sizes around the width of the AVX loop (16 floats).
EnergyLongSizes == {16, 17, 18, 32}

EnergyLongInput(n) == [k \in 1..n |-> IF k % 3 = 0 THEN 2 ELSE 0 - 1]

\* An output element not yet written.
EnergyUnwritten == 99

\* Energy::OnInputFormatChanged: outputFormat_->SetSize(inputFormat_->Size() / 2).
EnergyOnInputFormatChanged(inSize) == inSize \div 2

\* Energy::TypeSafeInitializeBuffers: in.Size() buffers of
\* inputFormat_->Size() / 2 elements.
EnergyInitializeBuffers(in, inSize) ==
  [i \in 1..Len(in) |-> [k \in 1..(inSize \div 2) |-> EnergyUnwritten]]

\* re * re + im * im for the pair at input[j], input[j + 1].
SquaredNorm(input, j) == input[j + 1] * input[j + 1] + input[j + 2] * input[j + 2]

\* for (int j = 0; j < length - 15; j += 16): sixteen floats are loaded from
\* input + j, eight sums are stored at output + j / 2.
RECURSIVE EnergyAvxLoop(_, _, _, _)
EnergyAvxLoop(input, acc, j, length) ==
  IF j < length - 15
    THEN EnergyAvxLoop(
           input,
           [out |-> [k \in 1..Len(acc.out) |->
                       IF k - 1 \in (j \div 2)..(j \div 2 + 7)
                         THEN SquaredNorm(input, 2 * (k - 1))
                         ELSE acc.out[k]],
            read |-> acc.read \cup j..(j + 15),
            written |-> acc.written \cup (j \div 2)..(j \div 2 + 7)],
           j + 16, length)
    ELSE acc

\* for (int j = from; j < length; j += 2) { re = input[j]; im = input[j + 1];
\* output[j / 2] = re * re + im * im; }
RECURSIVE EnergyScalarLoop(_, _, _, _)
EnergyScalarLoop(input, acc, j, length) ==
  IF j < length
    THEN EnergyScalarLoop(
           input,
           [out |-> IF j \div 2 < Len(acc.out)
                      THEN [acc.out EXCEPT ![j \div 2 + 1] = SquaredNorm(input, j)]
                      ELSE acc.out,
            read |-> acc.read \cup {j, j + 1},
            written |-> acc.written \cup {j \div 2}],
           j + 2, length)
    ELSE acc

\* (length >> 4) << 4.
Shift4(length) == length - (length % 16)

\* The body of TypeSafeDo's loop over the buffers: one input array, one
\* output array.
EnergyDoOne(input, output, length) ==
  EnergyScalarLoop(input,
                   EnergyAvxLoop(input,
                                 [out |-> output, read |-> {}, written |-> {}],
                                 0, length),
                   Shift4(length), length)

\* The record kept of the last call.
EOp(name, size, read, written) ==
  [name |-> name, size |-> size, read |-> read, written |-> written]

\* The batches: up to MaxBatch buffers of one size.
Batches(n) == UNION {[1..c -> [1..n -> EnergyValues]] : c \in 0..MaxBatch}

\* The engine negotiates Energy on input size n and allocates the output
\* buffers for a batch; a stage is negotiated once.
EnergySetUp(n, in) ==
  /\ eop.name = "Init"
  /\ \A i \in 1..Len(in) : Len(in[i]) = n
  /\ ein' = in
  /\ eout' = EnergyInitializeBuffers(in, n)
  /\ eop' = EOp("SetUp", n, {}, {})
  /\ UNCHANGED notEnergy

\* Energy::TypeSafeDo(in, out).
CallEnergyDo ==
  /\ eop.name = "SetUp"
  /\ LET r == [i \in 1..Len(ein) |-> EnergyDoOne(ein[i], eout[i], eop.size)] IN
     /\ eout' = [i \in 1..Len(ein) |-> r[i].out]
     /\ eop' = EOp("Do", eop.size,
                   UNION {r[i].read : i \in 1..Len(ein)},
                   UNION {r[i].written : i \in 1..Len(ein)})
  /\ UNCHANGED ein
  /\ UNCHANGED notEnergy

NextEnergy ==
  \/ /\ eop.name = "Init"
     /\ \E n \in 0..MaxEnergySize : \E in \in Batches(n) : EnergySetUp(n, in)
  \/ \E n \in EnergyLongSizes : EnergySetUp(n, <<EnergyLongInput(n)>>)
  \/ CallEnergyDo

(***************************************************************************)
(*                            Specifications                               *)
(***************************************************************************)

\* The state after start-up: no format exists yet, the containers are
\* constructed and not initialized, no stage is constructed.
Init ==
  /\ formats = <<>>
  /\ fop = FOp("Init", 0, 0, <<>>, TRUE, "", <<>>)
  /\ fhalted = FALSE
  /\ buffers = [c \in BufferRefs |-> NewBuffers]
  /\ heap = <<>>
  /\ bop = [name |-> "Init", c |-> 0, size |-> 0, args |-> "", ok |-> TRUE]
  /\ bhalted = FALSE
  /\ kind = "none"
  /\ params = NoParams
  /\ out = NotNegotiated
  /\ phase = "None"
  /\ pool = <<>>
  /\ pc = [p \in Invocations |-> "idle"]
  /\ idx = [p \in Invocations |-> 0]
  /\ sop = SOp("Init", "", "", "")
  /\ base = NoFormatBase
  /\ vop = VOp("Init", NoFormatBase, <<>>, "", FALSE, FALSE, <<>>)
  /\ din = <<>>
  /\ dout = <<>>
  /\ dop = DOp("Init", FALSE)
  /\ bdo = NoBeatDo
  /\ bout = <<>>
  /\ tree = SetUp
  /\ verdict = "none"
  /\ edits = 0
  /\ ein = <<>>
  /\ eout = <<>>
  /\ eop = EOp("Init", 0, {}, {})

SpecFormat == Init /\ [][NextFormat]_vars

SpecBuffers == Init /\ [][NextBuffers]_vars

SpecStage == Init /\ [][NextStage]_vars

\* The stage under a fair scheduler: the worker thread of an invocation that
\* is inside Do is not held back for ever. Nothing obliges a caller to
\* construct, configure, negotiate, initialize or call Do.
SpecStageFair ==
  Init /\ [][NextStage]_vars /\ \A p \in Invocations : WF_vars(DoStep(p))

SpecTyped == Init /\ [][NextTyped]_vars

SpecDiff == Init /\ [][NextDiff]_vars

SpecBeatDo == Init /\ [][NextBeatDo]_vars

SpecAllocator == Init /\ [][NextAllocator]_vars

SpecEnergy == Init /\ [][NextEnergy]_vars

(***************************************************************************)
(*                       Properties of BufferFormat                        *)
(***************************************************************************)

IsWildcard(f) == f.id = kIdentityID

InRange(v) == kMinSamplingRate <= v /\ v <= kMaxSamplingRate

\* C4: for every pair of formats, whatever their ids (the wildcard on either
\* or both sides included) and rates, a == b is exactly the negation of a != b;
\* the pair of results a comparison returned obeys it too.
C4_EqualityIsNegatedInequality ==
  /\ \A a \in FormatRefs, b \in FormatRefs :
       Equals(formats[a], formats[b]) = ~NotEquals(formats[a], formats[b])
  /\ fop.name = "Compare" => fop.ret[1] = ~fop.ret[2]

\* C4 witness: a wildcard format was compared with a non-wildcard one whose
\* rate differs from its own.
C4_Witness ==
  /\ fop.name = "Compare"
  /\ IsWildcard(formats[fop.a]) /\ ~IsWildcard(formats[fop.b])
  /\ formats[fop.a].samplingRate # formats[fop.b].samplingRate

\* C5: a format carrying the wildcard id equals every other format, whatever
\* the other id and whatever the two rates; two non-wildcard formats are equal
\* iff their ids are the same text; the sampling rate takes no part.
C5_WildcardEquality ==
  /\ \A a \in FormatRefs, b \in FormatRefs :
       /\ (IsWildcard(formats[a]) \/ IsWildcard(formats[b]))
            => Equals(formats[a], formats[b])
       /\ (~IsWildcard(formats[a]) /\ ~IsWildcard(formats[b]))
            => (Equals(formats[a], formats[b]) <=> formats[a].id = formats[b].id)
  /\ fop.name = "Compare" =>
       fop.ret[1] = (\/ IsWildcard(formats[fop.a]) \/ IsWildcard(formats[fop.b])
                     \/ formats[fop.a].id = formats[fop.b].id)

\* C5 witness: a non-wildcard format with a set rate was compared with a
\* wildcard format with an unset rate, and found equal.
C5_Witness ==
  /\ fop.name = "Compare" /\ fop.ret[1]
  /\ ~IsWildcard(formats[fop.a]) /\ IsWildcard(formats[fop.b])
  /\ formats[fop.a].samplingRate > 0
  /\ formats[fop.b].samplingRate = UnsetSamplingRate

\* C6: every step that is a SetSamplingRate(v) call (fop names the call each
\* step makes): SetSamplingRate(v) throws InvalidSamplingRate for every v below
\* kMinSamplingRate or above kMaxSamplingRate and then leaves every format as
\* it was; for v in the range it returns and the stored rate becomes v.
C6_SetSamplingRateValidates ==
  [][fop'.name = "SetSamplingRate" =>
       LET f == fop'.a
           v == fop'.arg[1]
       IN /\ CallSetSamplingRate(f, v)
          /\ IF v < kMinSamplingRate \/ v > kMaxSamplingRate
               THEN /\ ~fop'.ok /\ fop'.err = "InvalidSamplingRate"
                    /\ formats' = formats
               ELSE /\ fop'.ok /\ fop'.err = ""
                    /\ formats'[f].samplingRate = v
                    /\ \A g \in FormatRefs : g # f => formats'[g] = formats[g]]_vars

\* C6 witness: a SetSamplingRate above the range failed on a format whose rate
\* had been set before.
C6_Witness ==
  /\ fop.name = "SetSamplingRate" /\ ~fop.ok
  /\ fop.arg[1] > kMaxSamplingRate
  /\ formats[fop.a].samplingRate = kMinSamplingRate

\* C7: every format that exists has a rate that is unset (0) or inside
\* [kMinSamplingRate, kMaxSamplingRate].
C7_SamplingRateInvariant ==
  \A f \in FormatRefs :
    formats[f].samplingRate = UnsetSamplingRate \/ InRange(formats[f].samplingRate)

\* C7 witness: a construction with an out-of-range rate has just failed while
\* one format with an unset and one with a set rate exist.
C7_Witness ==
  /\ fop.name = "New" /\ ~fop.ok
  /\ \E f \in FormatRefs : formats[f].samplingRate = UnsetSamplingRate
  /\ \E f \in FormatRefs : formats[f].samplingRate = kMaxSamplingRate

\* C8: SamplingRate() on a format whose rate is unset aborts the process and
\* returns nothing; no call of SamplingRate() ever returns 0.
C8_UnsetSamplingRateHalts ==
  fop.name = "SamplingRate" =>
    /\ fop.ret # <<UnsetSamplingRate>>
    /\ formats[fop.a].samplingRate = UnsetSamplingRate
         => (fhalted /\ fop.ret = <<>>)
    /\ formats[fop.a].samplingRate # UnsetSamplingRate
         => (~fhalted /\ fop.ret = <<formats[fop.a].samplingRate>>)

\* C8 witness: SamplingRate() was called on a format with an unset rate.
C8_Witness ==
  /\ fop.name = "SamplingRate"
  /\ formats[fop.a].samplingRate = UnsetSamplingRate

\* C9: every step that is a CopySourceDetailsFrom call:
\* CopySourceDetailsFrom(other) leaves every id and every format but the
\* target as they were; the target's rate becomes
\* other's rate (when other's rate is unset the call aborts on SamplingRate()'s
\* assert and changes nothing).
C9_CopySourceDetailsFrame ==
  [][fop'.name = "CopySourceDetailsFrom" =>
       LET t == fop'.a
           s == fop'.b
       IN /\ CallCopySourceDetailsFrom(t, s)
          /\ Len(formats') = Len(formats)
          /\ \A g \in FormatRefs :
               /\ formats'[g].id = formats[g].id
               /\ g # t => formats'[g] = formats[g]
          /\ IF formats[s].samplingRate > 0
               THEN formats'[t].samplingRate = formats[s].samplingRate /\ ~fhalted'
               ELSE formats' = formats /\ fhalted']_vars

\* C9 witness: a non-wildcard target copied a rate other than its own from a
\* wildcard source.
C9_Witness ==
  /\ fop.name = "CopySourceDetailsFrom" /\ fop.ok
  /\ ~IsWildcard(formats[fop.a]) /\ IsWildcard(formats[fop.b])
  /\ fop.arg # <<formats[fop.a].samplingRate>>
  /\ formats[fop.a].samplingRate = formats[fop.b].samplingRate

(***************************************************************************)
(*                       Properties of BuffersBase                         *)
(***************************************************************************)

\* The pointers a container holds.
PtrsOf(b) == {b.elements[i] : i \in 1..Len(b.elements)}

\* C10: the first Initialize(n, args) of a container leaves it with exactly n
\* elements, each a freshly allocated object built from args that no container
\* held before, and with every other container as it was; an Initialize of a
\* container already initialized fails its assert (the process aborts) and
\* changes neither the size nor the elements of any container; at all times an
\* initialized container holds size non-null pointers, no two of them equal.
C10_InitializeOnce ==
  /\ [](\A c \in BufferRefs :
          buffers[c].initialized =>
            /\ Len(buffers[c].elements) = buffers[c].size
            /\ NullPtr \notin PtrsOf(buffers[c])
            /\ Cardinality(PtrsOf(buffers[c])) = buffers[c].size
            /\ \A d \in BufferRefs \ {c} :
                 PtrsOf(buffers[c]) \cap PtrsOf(buffers[d]) = {})
  /\ [][\A c \in BufferRefs, n \in 0..MaxSize, a \in CtorArgs :
          CallInitialize(c, n, a) =>
            IF buffers[c].initialized
              THEN bhalted' /\ buffers' = buffers /\ heap' = heap
              ELSE /\ ~bhalted' /\ buffers'[c].initialized
                   /\ buffers'[c].size = n
                   /\ Len(buffers'[c].elements) = n
                   /\ \A i \in 1..n :
                        /\ buffers'[c].elements[i] \in (1..Len(heap')) \ (1..Len(heap))
                        /\ heap'[buffers'[c].elements[i]] = a
                   /\ \A d \in BufferRefs \ {c} : buffers'[d] = buffers[d]]_vars

\* C10 witness: a container initialized with MaxSize elements was initialized
\* a second time, with another size, and still has its MaxSize elements.
C10_Witness ==
  /\ bop.name = "Initialize" /\ ~bop.ok /\ bhalted
  /\ bop.size < MaxSize
  /\ buffers[bop.c].initialized /\ buffers[bop.c].size = MaxSize
  /\ MaxSize > 0

(***************************************************************************)
(*                 Properties of the stages and their pool                 *)
(***************************************************************************)

Slots == 1..Len(pool)

\* The invocations inside the critical section of slot s: between a
\* successful try_lock on it and its unlock.
Holders(s) == {p \in Invocations : pc[p] = "locked" /\ idx[p] + 1 = s}

\* The slots whose mutex invocation p owns.
Owned(p) == {s \in Slots : pool[s] = p}

\* C1: every slot of the pool is free, with no invocation working on its
\* buffer, or locked, with exactly one invocation working on it, the one that
\* locked it; no two invocations hold the same slot.
C1_PoolMutualExclusion ==
  \A s \in Slots :
    /\ Cardinality(Holders(s)) <= 1
    /\ pool[s] = 0 <=> Holders(s) = {}
    /\ pool[s] # 0 => Holders(s) = {pool[s]}

\* C1 witness: two invocations hold slots at the same time.
C1_Witness ==
  \E p \in Invocations, q \in Invocations :
    p # q /\ pc[p] = "locked" /\ pc[q] = "locked"

\* C2: an invocation comes to hold a slot only by a try_lock on a free slot,
\* the one its scan is at; the scan starts at the first slot, moves on by one
\* after a failed try_lock and goes back to the while test, and from there to
\* the first slot, only after the last slot; an invocation owns at most one
\* mutex, and only while it works on that slot: none once it has returned.
C2_AcquisitionProtocol ==
  /\ [](\A p \in Invocations :
          /\ Cardinality(Owned(p)) <= 1
          /\ Owned(p) # {} => (pc[p] = "locked" /\ Owned(p) = {idx[p] + 1})
          /\ pc[p] = "done" => Owned(p) = {})
  /\ [][\A p \in Invocations :
          /\ (pc[p] # "locked" /\ pc'[p] = "locked") =>
               /\ pc[p] = "for" /\ idx'[p] = idx[p]
               /\ idx[p] + 1 \in Slots
               /\ pool[idx[p] + 1] = 0 /\ pool'[idx[p] + 1] = p
          /\ (pc[p] = "for" /\ pc'[p] = "for" /\ idx'[p] # idx[p]) =>
               /\ idx'[p] = idx[p] + 1
               /\ pool[idx[p] + 1] # 0 /\ pool' = pool
          /\ (pc[p] = "for" /\ pc'[p] = "while") => idx[p] = Len(pool)
          /\ (pc[p] = "while" /\ pc'[p] # "while") =>
               (pc'[p] = "for" /\ idx'[p] = 0)
          /\ (pc[p] = "locked" /\ pc'[p] # "locked") =>
               (pc'[p] \in {"done", "rectify"} /\ pool'[idx[p] + 1] = 0)]_vars

\* C2 witness: one invocation has returned while another one, which found
\* every slot locked, is at the end of its pass over a non-empty pool.
C2_Witness ==
  \E p \in Invocations, q \in Invocations :
    /\ pc[p] = "done" /\ pc[q] = "for"
    /\ Len(pool) >= 1 /\ idx[q] = Len(pool)

\* C3 as stated, for a Beat stage (its setters and its negotiation are both
\* in beat.cc): the lifecycle only moves forward, and once the stage is
\* Negotiated (or Initialized, or Running) no step changes a parameter.
C3_NoSetterAfterNegotiated ==
  [][kind = "Beat" =>
       /\ PhaseRank(phase') >= PhaseRank(phase)
       /\ phase \in {"Negotiated", "Initialized", "Running"} => params' = params]_vars

(***************************************************************************)
(*                    Properties of BufferFormatBase<T>                    *)
(***************************************************************************)

\* Two formats differ: their ids are different texts and neither is the
\* wildcard.
Differ(a, b) == a.id # b.id /\ ~IsWildcard(a) /\ ~IsWildcard(b)

NonFinite == {"NaN", "+Inf", "-Inf"}

\* C11: Validate(buffers) on buffers whose format differs from the expected
\* one fails with InvalidFormat and does not run the payload validator; on
\* equal formats it runs the payload validator, which for float elements fails
\* exactly when some element is NaN, +Infinity or -Infinity and for every
\* other element type accepts whatever the payload holds.
C11_ValidateFormatThenPayload ==
  vop.name = "Validate" =>
    IF Differ(base, vop.other)
      THEN vop.err = "InvalidFormat" /\ ~vop.consulted
      ELSE /\ vop.consulted
           /\ base.id = "float" =>
                (vop.err = "InvalidBuffers" <=>
                   \E i \in 1..Len(vop.payload) : vop.payload[i] \in NonFinite)
           /\ base.id = "float" => vop.err \in {"", "InvalidBuffers"}
           /\ base.id # "float" => vop.err = ""

\* C11 witness: a float format validated buffers of its own format whose
\* second element is +Infinity after a finite first one, and refused them.
C11_Witness ==
  /\ vop.name = "Validate" /\ base.id = "float" /\ vop.other.id = "float"
  /\ Len(vop.payload) = 2
  /\ vop.payload[1] = "0.0" /\ vop.payload[2] = "+Inf"
  /\ vop.err = "InvalidBuffers"

\* C12: MustReallocate(other) returns true exactly when the formats differ, or
\* this format is flagged incompatible, or the typed comparison asks for
\* reallocation; the typed comparison is called exactly when the formats are
\* equal and the flag is clear.
C12_MustReallocate ==
  vop.name = "MustReallocate" =>
    /\ vop.ret[1] = (Differ(base, vop.other) \/ base.incompatible \/ vop.typed)
    /\ vop.consulted <=> (~Differ(base, vop.other) /\ ~base.incompatible)

\* C12 witness: the formats are equal, the typed comparison asks for nothing,
\* the flag is set: true is returned without calling the typed comparison.
C12_Witness ==
  /\ vop.name = "MustReallocate"
  /\ vop.other.id = base.id /\ ~vop.typed /\ base.incompatible
  /\ vop.ret = <<TRUE>> /\ ~vop.consulted

(***************************************************************************)
(*                  Properties of the parameter setters                    *)
(***************************************************************************)

\* The setters that test a range: Beat's five and Diff's "swt".
RangeValidated == {"bands", "pulses", "min_bpm", "max_bpm", "max_peaks", "swt"}

\* C13: every call of a range-validated setter of Beat (bands, pulses,
\* min_bpm, max_bpm, max_peaks) or of Diff's swt setter that returns false
\* leaves every stored parameter of the stage as it was before the call (and
\* so does a call that Parse leaves by an exception).
C13_RejectedSetterKeepsParams ==
  [][(/\ sop'.name = "Set" /\ sop'.arg \in RangeValidated
      /\ SetParameter(sop'.arg, sop'.value)
      /\ sop'.ret \in {"false", "throw"})
       => params' = params]_vars

\* C13 witness: max_peaks had been set to 4; setting it to 11 was refused and
\* it still is 4.
C13_Witness ==
  /\ sop.name = "Set" /\ sop.arg = "max_peaks" /\ sop.value = "11"
  /\ sop.ret = "false"
  /\ kind = "Beat" /\ params.peaks = 4

\* C14 as stated: every call of Mean's "types" setter that returns false
\* leaves the selected set of mean types exactly as it was before the call.
C14_TypesNoPartialMutation ==
  [][(/\ sop'.name = "Set" /\ sop'.arg = "types"
      /\ SetParameter("types", sop'.value)
      /\ sop'.ret = "false")
       => params'.types = params.types]_vars

\* The mean types a text names.
NamedTypes(value) ==
  {MeanTypesMap[ChunksOf[value][i]] : i \in 1..Len(ChunksOf[value])}

\* C28: after a successful set of Mean's "types", the selected set is exactly
\* the set of types the value names (earlier selections and the default do
\* not remain unless named), so Mean::Do outputs 0 in the slot of every type
\* the most recent successful set did not name.
C28_TypesReplaced ==
  (kind = "Mean" /\ sop.name = "Set" /\ sop.arg = "types" /\ sop.ret = "true") =>
    /\ params.types = NamedTypes(sop.value)
    /\ \A mt \in DOMAIN MeanDo(params) :
         mt \notin NamedTypes(sop.value) => MeanDo(params)[mt] = "0"

\* What does hold: a successful set adds the named types to the selection.
TypesAdded ==
  [][(/\ sop'.name = "Set" /\ sop'.arg = "types"
      /\ SetParameter("types", sop'.value)
      /\ sop'.ret = "true")
       => params'.types = params.types \cup NamedTypes(sop'.value)]_vars

\* C29: after any sequence of parameter sets the stored number of filters is
\* at least 1 and at most 2048 (the validator rejects 0 and negative values),
\* so Initialize builds exactly number filters and the spacing divisor
\* number + 1 is positive.
C29_FilterCountUsable ==
  kind = "FilterBank" =>
    /\ params.number >= 1 /\ params.number <= 2048
    /\ ~FilterBankInitialize(params).thrown
    /\ FilterBankInitialize(params).filters = params.number
    /\ FilterBankInitialize(params).divisor > 0

\* What does hold: the stored number never exceeds 2048.
NumberAtMost2048 == kind = "FilterBank" => params.number <= 2048

(***************************************************************************)
(*                       Properties of negotiation                         *)
(***************************************************************************)

\* What a second stage of kind k, holding the parameter values this and never
\* negotiated before, gives on an input format (inSize, inRate) and count
\* buffers: the outcome and, when it succeeds, the output size and count.
TwinNegotiates(k, this, inSize, inRate, count) ==
  LET r == CASE k = "Beat" -> BeatOnInputFormatChanged(this, count)
             [] k = "FilterBank" ->
                  FilterBankOnInputFormatChanged(this, inSize, inRate, count)
             [] k = "RDFT" -> RDFTOnFormatChanged(inSize, count)
             [] k = "RDFTInverse" -> RDFTInverseOnFormatChanged(inSize, count)
  IN [ok |-> ~r.thrown, out |-> r.out]

\* This step's negotiation gave what the twin gives.
SameAsTwin(inSize, inRate, count) ==
  LET t == TwinNegotiates(kind, params, inSize, inRate, count) IN
  /\ (sop'.ret = "ok") = t.ok
  /\ t.ok => out' = t.out

C16_BeatNegotiation ==
  [][\A c \in 0..MaxBuffersCount :
       CallBeatOnInputFormatChanged(c) =>
         /\ params.bands >= 1 /\ params.peaks \in 1..10
         /\ out'.size = params.peaks
         /\ out'.count * params.bands <= c
         /\ c < (out'.count + 1) * params.bands]_vars

\* C16 witness: bands = 1 and max_peaks = 4 (set by its setter) on 4 buffers
\* negotiated an output of 4 buffers of size 4.
C16_Witness ==
  /\ kind = "Beat" /\ sop.name = "Negotiate"
  /\ params.bands = 1 /\ params.peaks = 4 /\ kDefaultPeaks # 4
  /\ out = [size |-> 4, count |-> 4]

\* The window [frequency_min, frequency_max] lies inside the input spectrum,
\* 0 to half the sampling rate.
FitsSpectrum(this, inRate) ==
  this.frequency_min >= 0 /\ 2 * this.frequency_max <= inRate

\* The window is empty or inverted.
EmptyWindow(this) == this.frequency_max <= this.frequency_min

\* C17 as stated: FilterBank's negotiation fails with InvalidFrequencyRange
\* whenever the window does not fit inside half the input sampling rate or is
\* empty or inverted; when it succeeds the output size is the filter count and
\* the buffer count is the input's.
C17_FilterBankFrequencyRange ==
  [][\A in \in FilterBankInputs, c \in 0..MaxBuffersCount :
       CallFilterBankOnInputFormatChanged(in[1], in[2], c) =>
         /\ (~FitsSpectrum(params, in[2]) \/ EmptyWindow(params))
              => sop'.ret = "InvalidFrequencyRange"
         /\ sop'.ret = "ok" =>
              out' = [size |-> params.number, count |-> c]]_vars

(***************************************************************************)
(*                          Properties of Diff                             *)
(***************************************************************************)

\* The difference the element at C index i stands for: its successor minus
\* itself, the successor of the last element being the first one.
Difference(a, i) ==
  IF i < Len(a) - 1 THEN a[i + 2] - a[i + 1] ELSE a[1] - a[Len(a)]

Max0(x) == IF x < 0 THEN 0 ELSE x

\* C18: on the non-SIMD path, for every input a of n >= 1 elements, Do leaves
\* out[i] = a[i+1] - a[i] for i < n-1 and out[n-1] = a[0] - a[n-1]; DoRectify
\* leaves max(0, that difference), so nothing negative; neither changes the
\* input.
C18_DiffWraparound ==
  /\ []((dop.name \in {"Do", "DoRectify"} /\ ~dop.simd) =>
          /\ Len(dout) = Len(din) /\ Len(din) >= 1
          /\ \A i \in 0..(Len(din) - 1) :
               /\ dop.name = "Do" => dout[i + 1] = Difference(din, i)
               /\ dop.name = "DoRectify" =>
                    (dout[i + 1] = Max0(Difference(din, i)) /\ dout[i + 1] >= 0))
  /\ [][dop'.name \in {"Do", "DoRectify"} => din' = din]_vars

\* C18 witness: DoRectify on three elements clamped a negative difference to 0
\* and kept the positive wraparound difference.
C18_Witness ==
  /\ dop.name = "DoRectify" /\ ~dop.simd /\ Len(din) = 3
  /\ din[2] < din[1] /\ dout[1] = 0
  /\ din[1] > din[3] /\ dout[3] = din[1] - din[3]

\* C26: the AVX branch of Do, DoRectify and Rectify assigns every output
\* index 0..n-1 the value the non-SIMD loop assigns, for every length n >= 1
\* (multiples of 8 and n < 8 included), and leaves no index unwritten.
C26_SimdAgreesWithScalar ==
  (dop.simd /\ dop.name \in {"Do", "DoRectify", "Rectify"}) =>
    /\ Len(dout) = Len(din)
    /\ \A i \in 0..(Len(din) - 1) :
         /\ dop.name = "Do" => dout[i + 1] = Difference(din, i)
         /\ dop.name = "DoRectify" => dout[i + 1] = Max0(Difference(din, i))
         /\ dop.name = "Rectify" => dout[i + 1] = Max0(din[i + 1])

\* The non-SIMD loops do assign those values at every length.
ScalarAssignsEveryIndex ==
  (~dop.simd /\ dop.name \in {"Do", "DoRectify", "Rectify"}) =>
    \A i \in 0..(Len(din) - 1) :
      /\ dop.name = "Do" => dout[i + 1] = Difference(din, i)
      /\ dop.name = "DoRectify" => dout[i + 1] = Max0(Difference(din, i))
      /\ dop.name = "Rectify" => dout[i + 1] = Max0(din[i + 1])

\* The lengths at which the AVX branch leaves an output element as it was.
SimdDisagreesOnlyAt ==
  (dop.simd /\ dop.name \in {"Do", "DoRectify", "Rectify"}
     /\ ~(/\ dop.name \in {"Do", "DoRectify"} => Len(din) \in {8, 16}
          /\ dop.name = "Rectify" => Len(din) \in {8, 9}))
    => \A i \in 0..(Len(din) - 1) :
         /\ dop.name = "Do" => dout[i + 1] = Difference(din, i)
         /\ dop.name = "DoRectify" => dout[i + 1] = Max0(Difference(din, i))
         /\ dop.name = "Rectify" => dout[i + 1] = Max0(din[i + 1])

(***************************************************************************)
(*                         Properties of Beat::Do                          *)
(***************************************************************************)

\* The peaks of a group that get a slot: none when results == nullptr, at
\* most max_peaks otherwise.
Kept(f, peaks) ==
  IF f.null THEN 0 ELSE IF f.count > peaks THEN peaks ELSE f.count

\* C19: after Do, in the output buffer of every group, both fields of all
\* max_peaks slots are written: when detect_peaks found nothing every slot is
\* (0, 0), and the groups after it are processed all the same; when it found
\* k < max_peaks peaks, slots 0..k-1 hold stored values and slots k..max_peaks-1
\* are (0, 0); when it found more than max_peaks, exactly max_peaks slots hold
\* stored values.
C19_BeatDoFillsEverySlot ==
  bdo.state = "done" =>
    \A g \in 1..Len(bout) :
      /\ g <= Groups(bdo)
      /\ Len(bout[g]) = bdo.peaks
      /\ \A i \in 1..bdo.peaks :
           /\ bout[g][i][1] # "?" /\ bout[g][i][2] # "?"
           /\ bout[g][i] = IF i <= Kept(bdo.found[g], bdo.peaks) THEN Stored
                                                                 ELSE Zeroed

\* C19 witness: detect_peaks found nothing in the first group, more than
\* max_peaks in the second and fewer in the third; all three output buffers
\* are written.
C19_Witness ==
  /\ bdo.state = "done" /\ Len(bout) >= 3 /\ bdo.peaks = 2
  /\ bdo.found[1].null
  /\ bdo.found[2].count > bdo.peaks
  /\ ~bdo.found[3].null /\ bdo.found[3].count = 1
  /\ bout[1] = <<Zeroed, Zeroed>>
  /\ bout[2] = <<Stored, Stored>>
  /\ bout[3] = <<Stored, Zeroed>>

(***************************************************************************)
(*                   Properties of the allocator's Validate                *)
(***************************************************************************)

SamePair(a, b) == a.Address = b.Address /\ a.Size = b.Size

RECURSIVE Visited(_, _, _)
Visited(t, n, seen) ==
  IF n = NoNode \/ n \in seen THEN seen
  ELSE Visited(t, t[n].Next, seen \cup {n})

RECURSIVE Revisits(_, _, _)
Revisits(t, n, seen) ==
  IF n = NoNode THEN FALSE
  ELSE IF n \in seen THEN TRUE
  ELSE Revisits(t, t[n].Next, seen \cup {n})

\* C21: Validate returns true only if the Next chain from the root visits
\* every node exactly once and then ends: it returns false when the chain ends
\* before all NodesCount(tree) nodes were visited, when the chain revisits a
\* node, and when two nodes reference the same Item.
C21_FullyLinkedDistinctItems ==
  verdict = "true" =>
    /\ Cardinality(Visited(tree, 1, {})) = NodesCount(tree)
    /\ ~Revisits(tree, 1, {})
    /\ \A n \in Nodes(tree), m \in Nodes(tree) :
         n # m => tree[n].Item # tree[m].Item

\* C21 witness: node 6's Next was pointed back at node 3
\* (ValidateDuplicateNode), nothing else was changed, and Validate returned
\* false.
C21_Witness ==
  /\ verdict = "false"
  /\ tree = [SetUp EXCEPT ![6].Next = 3]
  /\ Revisits(tree, 1, {})

\* C22: Validate returns false whenever any node still carries
\* Node::UNINITIALIZED_ADDRESS, whatever the addresses of the other nodes.
C22_SentinelAddressRejected ==
  (\E n \in Nodes(tree) : tree[n].Address = UNINITIALIZED_ADDRESS)
    => verdict # "true"

\* C22 witness: node 6 carries the sentinel, another node was given another
\* address, and Validate returned false.
C22_Witness ==
  /\ verdict = "false"
  /\ tree[6].Address = UNINITIALIZED_ADDRESS
  /\ \E n \in Nodes(tree) \ {6} :
       /\ tree[n].Address # SetUp[n].Address
       /\ tree[n].Address # UNINITIALIZED_ADDRESS

\* The ranges [Address, Address + Size) of a and b have an address in common.
Overlap(a, b) ==
  \E x \in 0..20 :
    /\ a.Address <= x /\ x < a.Address + a.Size
    /\ b.Address <= x /\ x < b.Address + b.Size

\* Node n differs from the fixture's in having size 0 and some address.
ZeroSized(t, n) ==
  /\ t[n].Size = 0
  /\ t[n].Address # UNINITIALIZED_ADDRESS
  /\ t[n] = [SetUp[n] EXCEPT !.Size = 0, !.Address = t[n].Address]

C27_EnergyInBounds ==
  eop.name = "Do" =>
    /\ Len(eout) = Len(ein)
    /\ EnergyOnInputFormatChanged(eop.size) = eop.size \div 2
    /\ \A i \in 1..Len(eout) : Len(eout[i]) = EnergyOnInputFormatChanged(eop.size)
    /\ \A j \in eop.read : j < eop.size
    /\ \A k \in eop.written : k < eop.size \div 2
    /\ \A i \in 1..Len(eout) : \A k \in 0..(eop.size \div 2 - 1) :
         eout[i][k + 1] = ein[i][2 * k + 1] * ein[i][2 * k + 1]
                          + ein[i][2 * k + 2] * ein[i][2 * k + 2]

\* For even n the claim's statement does hold.
EnergyInBoundsWhenEven ==
  (eop.name = "Do" /\ eop.size % 2 = 0) =>
    /\ Len(eout) = Len(ein)
    /\ \A j \in eop.read : j < eop.size
    /\ \A k \in eop.written : k < eop.size \div 2
    /\ \A i \in 1..Len(eout) : \A k \in 0..(eop.size \div 2 - 1) :
         eout[i][k + 1] = ein[i][2 * k + 1] * ein[i][2 * k + 1]
                          + ein[i][2 * k + 2] * ein[i][2 * k + 2]

(***************************************************************************)
(*                     Beat::Do and the negotiated output                  *)
(***************************************************************************)

\* C25: Beat::Do stays inside the negotiated output: for every input buffer
\* count c and bands b >= 1, c divisible by b or not, every output buffer
\* index ini / b it writes is less than the output buffer count c / b that
\* OnInputFormatChanged(c) returned, and every slot index written is less
\* than max_peaks.
C25_BeatDoInsideOutput ==
  bdo.state = "done" =>
    /\ Len(bout) = BeatOnInputFormatChanged(bdo, bdo.count).out.count
    /\ \A k \in BuffersWritten(bdo) : k < Len(bout)
    /\ \A k \in 1..Len(bout) : \A i \in SlotsWritten(bdo) : i < Len(bout[k])

(***************************************************************************)
(*                 Termination of the scratch acquisition                  *)
(***************************************************************************)

\* Invocation p is in the retry loop of Do or works on a slot it locked.
InLoop(p) == pc[p] \in {"while", "for", "locked", "rectify"}

\* C24: with a pool of at least one slot, under fair scheduling every
\* invocation that entered Do eventually returns, also when the pool has
\* fewer slots than there are invocations, and once all have returned every
\* slot is free; with a pool of zero slots an invocation in the retry loop
\* never leaves it.
C24_ScratchAcquisitionTerminates ==
  /\ \A p \in Invocations :
       (InLoop(p) /\ Len(pool) >= 1) ~> (pc[p] = "done")
  /\ [](NoDoInFlight => \A s \in Slots : pool[s] = 0)
  /\ [][\A p \in Invocations :
          (Len(pool) = 0 /\ pc[p] \in {"while", "for"})
            => (Len(pool') = 0 /\ pc'[p] \in {"while", "for"})]_vars

\* C24 witness: a FilterBank with one slot; every one of the (at least two)
\* invocations has gone through the slot and returned, and the slot is free.
C24_Witness ==
  /\ kind = "FilterBank" /\ Len(pool) = 1 /\ pool[1] = 0
  /\ Cardinality(Invocations) > Len(pool)
  /\ \A p \in Invocations : pc[p] = "done"

\* C24 witness of the second half is reached too: an invocation at the end of
\* a pass over an empty pool.
C24_EmptyPoolLoops ==
  \E p \in Invocations : Len(pool) = 0 /\ pc[p] = "for" /\ phase = "Running"

(***************************************************************************)
(*                  Negotiation of RDFT and RDFTInverse                    *)
(***************************************************************************)

\* C30: RDFT sets output size = input size + 2 and RDFTInverse sets output
\* size = input size - 2, both returning the buffer count unchanged, so RDFT
\* then RDFTInverse restores the original size for every input size; and
\* RDFTInverse's output size is never larger than its input size (no
\* unsigned wrap-around for input sizes 0 and 1).
C30_RDFTInverseSizes ==
  [][\A n \in RDFTInputs, c \in 0..MaxBuffersCount :
       CallRDFTOnFormatChanged(n, c) =>
         /\ out'.count = c
         /\ kind = "RDFT" => out'.size = n + 2
         /\ kind = "RDFTInverse" =>
              (out'.size = n - 2 /\ ~SizeTGreater(out'.size, n))
         /\ RDFTInverseOnFormatChanged(RDFTOnFormatChanged(n, c).out.size, c).out
              = [size |-> n, count |-> c]]_vars

\* What does hold: the sizes and counts as stated and the round trip, and
\* no wrap-around from input size 2 on.
RDFTSizesFromTwo ==
  [][\A n \in RDFTInputs, c \in 0..MaxBuffersCount :
       CallRDFTOnFormatChanged(n, c) =>
         /\ out'.count = c
         /\ kind = "RDFT" => out'.size = n + 2
         /\ kind = "RDFTInverse" =>
              (out'.size = n - 2 /\ (n >= 2 => ~SizeTGreater(out'.size, n)))
         /\ RDFTInverseOnFormatChanged(RDFTOnFormatChanged(n, c).out.size, c).out
              = [size |-> n, count |-> c]]_vars

====
